---- MODULE Spec2Model ----
(***************************************************************************)
(* Equation-balancing drill (components/EquationBalancer.tsx, utils.tsx,   *)
(* services/geminiService.ts).                                             *)
(*                                                                         *)
(* A JavaScript string is a sequence of one-character strings, so that     *)
(* split, replace and the regular expressions can be computed character    *)
(* by character.  A JavaScript object used as a map (Record<string,number>)*)
(* is a sequence of [el, cnt] entries in insertion order, which is the     *)
(* order Object.entries and Object.keys enumerate.                         *)
(***************************************************************************)
EXTENDS Integers, Sequences, FiniteSets, TLC

VARIABLES
    formula,          \* argument of a parseFormula / getCharge call
    parseOut,         \* outcome of parseFormula(formula), NotCalled before it
    chargeOut,        \* outcome of getCharge(formula), NotCalled before it
    language,         \* prop language: "ZH" or "EN"
    selectedTopic,    \* useState: an EquationTopic, or NoTopic for null
    equations,        \* useState: the batch of ChemicalEquation
    loading,          \* useState
    currentIndex,     \* useState (0-based, as in the code)
    userCoefficients, \* useState: term id -> <<>> (no entry) or <<text>>
    score,            \* useState
    feedback,         \* useState: "none", "correct" or "incorrect"
    hintMessage,      \* useState: a string, "" when empty
    showAnswer,       \* useState
    isOfflineMode,    \* useState
    history,          \* useState: signatures of the equations served
    pending,          \* the generateEquations call loadData awaits: <<>> or <<request>>
    uncaught          \* TRUE when the last event handler ended in an uncaught error

pureVars == <<formula, parseOut, chargeOut>>

uiVars == <<language, selectedTopic, equations, loading, currentIndex,
            userCoefficients, score, feedback, hintMessage, showAnswer,
            isOfflineMode, history, pending, uncaught>>

vars == <<formula, parseOut, chargeOut, language, selectedTopic, equations,
          loading, currentIndex, userCoefficients, score, feedback,
          hintMessage, showAnswer, isOfflineMode, history, pending, uncaught>>

\* Before the call of a function, and the outcomes of a call: a thrown
\* TypeError, the value undefined, or a value.
NotCalled    == [called |-> FALSE]
Threw        == [called |-> TRUE, threw |-> TRUE,  undef |-> FALSE, value |-> <<>>]
Undefined    == [called |-> TRUE, threw |-> FALSE, undef |-> TRUE,  value |-> <<>>]
Returned(v)  == [called |-> TRUE, threw |-> FALSE, undef |-> FALSE, value |-> v]

----------------------------------------------------------------------------
(* Characters and strings *)

Upper == {"C", "F", "H", "M", "N", "O", "S", "Z"}
Lower == {"a", "e", "g", "n", "u"}
Digit == {"0", "1", "2", "3", "4", "5", "6", "7", "8", "9"}

\* The string of a sequence of characters, e.g. <<"C","a">> |-> "Ca".
RECURSIVE Str(_)
Str(cs) == IF cs = <<>> THEN "" ELSE Head(cs) \o Str(Tail(cs))

DigitVal(c) ==
    CASE c = "0" -> 0 [] c = "1" -> 1 [] c = "2" -> 2 [] c = "3" -> 3
      [] c = "4" -> 4 [] c = "5" -> 5 [] c = "6" -> 6 [] c = "7" -> 7
      [] c = "8" -> 8 [] c = "9" -> 9

\* End (exclusive) of the longest run of characters of class cls starting at i.
RECURSIVE RunEnd(_, _, _)
RunEnd(s, i, cls) ==
    IF i <= Len(s) /\ s[i] \in cls THEN RunEnd(s, i + 1, cls) ELSE i

RECURSIVE DigitsValue(_)
DigitsValue(ds) ==
    IF Len(ds) = 1 THEN DigitVal(ds[1])
    ELSE 10 * DigitsValue(SubSeq(ds, 1, Len(ds) - 1)) + DigitVal(ds[Len(ds)])

\* parseInt(t, 10) for a text that starts with an optional sign and at least
\* one digit: the value of the leading digits, whatever follows them.  (A
\* text without such a start gives NaN; the model feeds none.)
parseInt(t) ==
    LET start == IF t[1] \in {"+", "-"} THEN 2 ELSE 1
        n     == DigitsValue(SubSeq(t, start, RunEnd(t, start, Digit) - 1))
    IN  IF t[1] = "-" THEN 0 - n ELSE n

\* s.split(sep): the pieces of s between the occurrences of the character sep.
RECURSIVE Split(_, _)
Split(s, sep) ==
    IF \A i \in 1..Len(s) : s[i] # sep THEN <<s>>
    ELSE LET k == CHOOSE i \in 1..Len(s) :
                      s[i] = sep /\ \A j \in 1..(i - 1) : s[j] # sep
         IN  <<SubSeq(s, 1, k - 1)>> \o Split(SubSeq(s, k + 1, Len(s)), sep)

\* s.replace(/\./g, ''): s without its dots.
RemoveDots(s) == SelectSeq(s, LAMBDA c : c # ".")

----------------------------------------------------------------------------
(* Record<string, number> as an insertion-ordered sequence of entries *)

Keys(rec) == {rec[i].el : i \in 1..Len(rec)}

\* rec[el] || 0
GetOr0(rec, el) ==
    IF el \in Keys(rec)
    THEN (CHOOSE e \in {rec[i] : i \in 1..Len(rec)} : e.el = el).cnt
    ELSE 0

\* rec[el] = (rec[el] || 0) + n : an existing key keeps its place, a new
\* key is appended.
AddTo(rec, el, n) ==
    IF el \in Keys(rec)
    THEN [i \in 1..Len(rec) |->
             IF rec[i].el = el THEN [el |-> el, cnt |-> rec[i].cnt + n] ELSE rec[i]]
    ELSE Append(rec, [el |-> el, cnt |-> n])

----------------------------------------------------------------------------
(* utils.tsx: parseFormula *)

\* One match of tokenRegex = /([A-Z][a-z]*|e)(\d*)|(\()|(\))(\d*)/g searched
\* from index i: the leftmost position where an alternative matches, or
\* kind "none" (exec returns null).
RECURSIVE NextToken(_, _)
NextToken(s, i) ==
    IF i > Len(s) THEN [kind |-> "none"]
    ELSE IF s[i] \in Upper THEN
        LET n == RunEnd(s, i + 1, Lower)
            d == RunEnd(s, n, Digit)
        IN  [kind |-> "element", name |-> Str(SubSeq(s, i, n - 1)),
             digits |-> SubSeq(s, n, d - 1), next |-> d]
    ELSE IF s[i] = "e" THEN
        LET d == RunEnd(s, i + 1, Digit)
        IN  [kind |-> "element", name |-> "e",
             digits |-> SubSeq(s, i + 1, d - 1), next |-> d]
    ELSE IF s[i] = "(" THEN [kind |-> "open", next |-> i + 1]
    ELSE IF s[i] = ")" THEN
        LET d == RunEnd(s, i + 1, Digit)
        IN  [kind |-> "close", digits |-> SubSeq(s, i + 1, d - 1), next |-> d]
    ELSE NextToken(s, i + 1)

\* parseInt(m || '1', 10) for a captured digit group m.
CountOf(digits) == IF digits = <<>> THEN 1 ELSE parseInt(digits)

\* for (const [el, cnt] of Object.entries(popped))
\*     current[el] = (current[el] || 0) + cnt * multiplier
\* MergeInto without the group's multiplier.
RECURSIVE MergeInto_Unscaled(_, _, _)
MergeInto_Unscaled(current, popped, multiplier) ==
    IF popped = <<>> THEN current
    ELSE MergeInto_Unscaled(AddTo(current, Head(popped).el, Head(popped).cnt),
                            Tail(popped), multiplier)

RECURSIVE MergeInto(_, _, _)
MergeInto(current, popped, multiplier) ==
    IF popped = <<>> THEN current
    ELSE MergeInto(AddTo(current, Head(popped).el, Head(popped).cnt * multiplier),
                   Tail(popped), multiplier)

\* The while loop of parseFormula from regex position i with the given
\* stack, and the return.  threw = TRUE is the TypeError of indexing
\* stack[stack.length - 1] when the stack is empty.
RECURSIVE ParseLoop(_, _, _)
ParseLoop(clean, i, stack) ==
    LET t == NextToken(clean, i) IN
    CASE t.kind = "none" ->
            IF stack = <<>> THEN Undefined ELSE Returned(stack[1])
      [] t.kind = "element" ->
            IF stack = <<>> THEN Threw
            ELSE ParseLoop(clean, t.next,
                     [stack EXCEPT ![Len(stack)] =
                         AddTo(stack[Len(stack)], t.name, CountOf(t.digits))])
      [] t.kind = "open" ->
            ParseLoop(clean, t.next, Append(stack, <<>>))
      [] t.kind = "close" ->
            IF stack = <<>> THEN ParseLoop(clean, t.next, stack)
            ELSE LET popped == stack[Len(stack)]
                     rest   == SubSeq(stack, 1, Len(stack) - 1)
                 IN  IF popped = <<>> THEN ParseLoop(clean, t.next, rest)
                     ELSE IF rest = <<>> THEN Threw
                     ELSE ParseLoop(clean, t.next,
                              [rest EXCEPT ![Len(rest)] =
                                  MergeInto(rest[Len(rest)], popped,
                                            CountOf(t.digits))])

parseFormula(f) == ParseLoop(RemoveDots(Split(f, "^")[1]), 1, <<<<>>>>)

----------------------------------------------------------------------------
(* components/EquationBalancer.tsx: getCharge *)

\* chargePart.match(/(\d*)([\+\-])/): the leftmost position i from which a
\* run of digits is directly followed by a sign; 0 when there is none.
SignMatch(part) ==
    LET starts == {i \in 1..Len(part) :
                      LET d == RunEnd(part, i, Digit)
                      IN  d <= Len(part) /\ part[d] \in {"+", "-"}}
    IN  IF starts = {} THEN 0
        ELSE CHOOSE i \in starts : \A j \in starts : i <= j

\* getCharge that reads the sign but not the digits before it.
getCharge_SignOnly(f) ==
    LET parts == Split(f, "^") IN
    IF Len(parts) < 2
    THEN IF f = <<"e">> \/ f = <<"e", "-">> THEN -1 ELSE 0
    ELSE LET m == SignMatch(parts[2])
         IN  IF m = 0 THEN 0
             ELSE IF parts[2][RunEnd(parts[2], m, Digit)] = "+" THEN 1 ELSE -1

getCharge(f) ==
    LET parts == Split(f, "^") IN
    IF Len(parts) < 2
    THEN IF f = <<"e">> \/ f = <<"e", "-">> THEN -1 ELSE 0
    ELSE LET chargePart == parts[2]
             m == SignMatch(chargePart)
         IN  IF m = 0 THEN 0
             ELSE LET d    == RunEnd(chargePart, m, Digit)
                      num  == IF d > m THEN parseInt(SubSeq(chargePart, m, d - 1))
                              ELSE 1
                      sign == IF chargePart[d] = "+" THEN 1 ELSE -1
                  IN  num * sign

----------------------------------------------------------------------------
(* Formulas named in the sources and in the scenarios *)

Ca_OH_2    == <<"C", "a", "(", "O", "H", ")", "2">>
Fe2_SO4_3  == <<"F", "e", "2", "(", "S", "O", "4", ")", "3">>
Nested     == <<"(", "C", "(", "O", "H", "2", ")", "3", ")", "2", "O">>
Hydrate    == <<"F", "e", "2", "O", "3", ".", "H", "2", "O">>
UnclosedCa == <<"C", "a", "(", "O", "H">>
H_Close_2  == <<"H", ")", "2">>
H_Close_O  == <<"H", ")", "O">>
SO4_2minus == <<"S", "O", "4", "^", "2", "-">>
Fe_3plus   == <<"F", "e", "^", "3", "+">>
Fe_2plus   == <<"F", "e", "^", "2", "+">>
Na_plus    == <<"N", "a", "^", "+">>
e_minus    == <<"e", "^", "-">>
H2O        == <<"H", "2", "O">>
C_12minus == <<"C", "^", "1", "2", "-">>
Zn_2plus   == <<"Z", "n", "^", "2", "+">>

----------------------------------------------------------------------------
(* types: EquationTopic, Language, EquationComponent, ChemicalEquation *)

NoTopic == "null"

Topics == {"METALS", "ACIDS_BASES", "FOSSIL_FUELS", "EQUILIBRIUM",
           "REDOX_HALF", "REDOX_FULL"}

Languages == {"ZH", "EN"}

\* EquationComponent without its display name, ChemicalEquation without
\* its difficulty tag (neither is read by the logic).
Component(f, c) == [formula |-> f, coefficient |-> c]

Equation(rs, ps) == [reactants |-> rs, products |-> ps]

----------------------------------------------------------------------------
(* services/geminiService.ts: generateEquations, getFallbackEquations *)

H2    == <<"H", "2">>
O2    == <<"O", "2">>
Mg    == <<"M", "g">>
MgO   == <<"M", "g", "O">>
Zn    == <<"Z", "n">>
CuSO4 == <<"C", "u", "S", "O", "4">>
ZnSO4 == <<"Z", "n", "S", "O", "4">>
Cu    == <<"C", "u">>

FallbackAll ==
    << Equation(<<Component(H2, 2), Component(O2, 1)>>, <<Component(H2O, 2)>>),
       Equation(<<Component(Mg, 2), Component(O2, 1)>>, <<Component(MgO, 2)>>),
       Equation(<<Component(Zn, 1), Component(CuSO4, 1)>>,
                <<Component(ZnSO4, 1), Component(Cu, 1)>>) >>

\* all.slice(0, count)
getFallbackEquations(count) ==
    SubSeq(FallbackAll, 1, IF count < Len(FallbackAll) THEN count ELSE Len(FallbackAll))

\* What the remote call does: it throws, answers without text, answers a
\* text JSON.parse rejects, answers a text that parses to the array d, or
\* answers a text that parses to an object that is no array ("{}").
Throws  == [kind |-> "throws",   data |-> <<>>]
NoText  == [kind |-> "no-text",  data |-> <<>>]
BadJson == [kind |-> "bad-json", data |-> <<>>]
Parsed(d) == [kind |-> "ok", data |-> d]
ParsedObject == [kind |-> "ok-object", data |-> <<>>]

\* generateEquations returning the fallback without the offline flag.
generateEquations_FlagsNothing(count, outcome) ==
    IF outcome.kind \in {"ok", "ok-object"}
    THEN [data |-> outcome.data, isOffline |-> FALSE, isArray |-> outcome.kind = "ok"]
    ELSE [data |-> getFallbackEquations(count), isOffline |-> FALSE, isArray |-> TRUE]

\* The result { data, isOffline }.  JSON.parse(..) as ChemicalEquation[] is
\* an unchecked cast: isArray tells whether data is an array.  The object
\* {} has no element and no length, so data is <<>> for it.
generateEquations(count, outcome) ==
    IF outcome.kind \in {"ok", "ok-object"}
    THEN [data |-> outcome.data, isOffline |-> FALSE, isArray |-> outcome.kind = "ok"]
    ELSE [data |-> getFallbackEquations(count), isOffline |-> TRUE, isArray |-> TRUE]

\* loadData asks for 5 equations and keeps the last 30 signatures.
RequestCount == 5
HistoryCap == 30

----------------------------------------------------------------------------
(* loadData: the signature of an equation *)

\* The characters of the model in UTF-16 code unit order.
CodeOrder ==
    <<"(", ")", "+", "-", ".", "0", "1", "2", "3", "4", "5", "6", "7", "8", "9",
      "C", "F", "H", "M", "N", "O", "S", "Z", "^", "a", "e", "g", "n", "u">>

CharCode(c) == CHOOSE i \in 1..Len(CodeOrder) : CodeOrder[i] = c

\* a < b as JavaScript compares strings.
RECURSIVE StrLess(_, _)
StrLess(a, b) ==
    IF b = <<>> THEN FALSE
    ELSE IF a = <<>> THEN TRUE
    ELSE IF Head(a) = Head(b) THEN StrLess(Tail(a), Tail(b))
    ELSE CharCode(Head(a)) < CharCode(Head(b))

\* Array.prototype.sort() of an array of strings.
RECURSIVE Insert(_, _)
Insert(x, sorted) ==
    IF sorted = <<>> THEN <<x>>
    ELSE IF StrLess(x, Head(sorted)) THEN <<x>> \o sorted
    ELSE <<Head(sorted)>> \o Insert(x, Tail(sorted))

RECURSIVE Sort(_)
Sort(xs) == IF xs = <<>> THEN <<>> ELSE Insert(xs[Len(xs)], Sort(SubSeq(xs, 1, Len(xs) - 1)))

\* strings.join(sep)
RECURSIVE Join(_, _)
Join(strings, sep) ==
    IF strings = <<>> THEN ""
    ELSE IF Len(strings) = 1 THEN strings[1]
    ELSE strings[1] \o sep \o Join(Tail(strings), sep)

\* eq.reactants.map(r => r.formula).sort().join('+')
Signature(eq) ==
    LET formulas == [i \in 1..Len(eq.reactants) |-> eq.reactants[i].formula]
        sorted   == Sort(formulas)
    IN  Join([i \in 1..Len(sorted) |-> Str(sorted[i])], "+")

\* slice(0, n) in the place of slice(-n).
LastN_KeepsFirst(xs, n) == IF Len(xs) <= n THEN xs ELSE SubSeq(xs, 1, n)

\* array.slice(-n)
LastN(xs, n) == IF Len(xs) <= n THEN xs ELSE SubSeq(xs, Len(xs) - n + 1, Len(xs))

----------------------------------------------------------------------------
(* What the service answers and what the user types *)

\* Fe^2+ -> Fe^3+ + e^-
FeHalf == Equation(<<Component(Fe_2plus, 1)>>,
                   <<Component(Fe_3plus, 1), Component(e_minus, 1)>>)

\* H2 + O2 -> H2O with reference coefficients 1, 1, 1, which do not balance.
WrongReference == Equation(<<Component(H2, 1), Component(O2, 1)>>,
                           <<Component(H2O, 1)>>)

\* A formula with a ")" that closes nothing.
Malformed == Equation(<<Component(H_Close_2, 1)>>, <<Component(H2, 1)>>)

\* Zn -> Zn^2+ + 2 e^-
ZnHalf == Equation(<<Component(Zn, 1)>>,
                   <<Component(Zn_2plus, 1), Component(e_minus, 2)>>)

\* O2 -> 2 MgO: magnesium is on the right side only.
RightOnly == Equation(<<Component(O2, 1)>>, <<Component(MgO, 2)>>)

\* The text "[]": an array without an equation.
EmptyAnswer == <<>>

\* The arrays the remote answer parses to.
RemoteData == {<<FeHalf, WrongReference, Malformed>>, EmptyAnswer}

ServiceOutcomes ==
    {Throws, NoText, BadJson, ParsedObject} \cup {Parsed(d) : d \in RemoteData}

\* O2 + 2 Mg -> 2 MgO, the oxygen written first
OxygenFirst == Equation(<<Component(O2, 1), Component(Mg, 2)>>, <<Component(MgO, 2)>>)

\* The service answers of which one question is answered.
QuestionOutcomes == ServiceOutcomes \cup {Parsed(<<ZnHalf, OxygenFirst, RightOnly>>)}

\* The texts typed into a coefficient input: in a whole session, and while
\* one question is answered.
SessionInputs == {<<>>, <<"2">>, <<"1", "2">>, <<"0", "2">>}

QuestionInputs ==
    {<<>>, <<"1">>, <<"2">>, <<"4">>, <<"0">>, <<"0", "2">>, <<"-", "1">>,
     <<"1", "a">>}

\* The topics selected in a whole session.
SessionTopics == {"METALS", "REDOX_HALF"}

\* A load is started by the next button while fewer signatures are kept.
MaxServed == 4

Range(xs) == {xs[i] : i \in 1..Len(xs)}

ModelEquations == UNION {Range(d) : d \in RemoteData \cup {FallbackAll, <<ZnHalf, OxygenFirst, RightOnly>>}}

\* The formulas of the equations of the model.
ModelFormulas ==
    UNION {{c.formula : c \in Range(eq.reactants) \cup Range(eq.products)}
              : eq \in ModelEquations}

\* parseFormula and getCharge on the formulas of the model, computed once.
parseFormulaOf == [f \in ModelFormulas |-> parseFormula(f)]

getChargeOf == [f \in ModelFormulas |-> getCharge(f)]

----------------------------------------------------------------------------
(* components/EquationBalancer.tsx: checkAnswer, the computation *)

\* The key `r-${idx}` or `p-${idx}` of a term (side "r" or "p", idx from 0).
TermId(side, idx) == <<side, idx>>

\* parseInt(userCoefficients[id] || '1', 10): a missing entry (<<>>) and an
\* empty text are falsy.
Resolve(coeffs, id) ==
    IF coeffs[id] = <<>> \/ coeffs[id][1] = <<>> THEN 1 ELSE parseInt(coeffs[id][1])

\* The loop of AddAtoms with the coefficient left out of the product.
RECURSIVE AddAtoms_Unweighted(_, _, _)
AddAtoms_Unweighted(counts, atoms, coeff) ==
    IF atoms = <<>> THEN counts
    ELSE AddAtoms_Unweighted(IF Head(atoms).el = "e" THEN counts
                             ELSE AddTo(counts, Head(atoms).el, Head(atoms).cnt),
                             Tail(atoms), coeff)

\* The loop of AddAtoms without the test that skips the electron.
RECURSIVE AddAtoms_CountsElectrons(_, _, _)
AddAtoms_CountsElectrons(counts, atoms, coeff) ==
    IF atoms = <<>> THEN counts
    ELSE AddAtoms_CountsElectrons(AddTo(counts, Head(atoms).el, Head(atoms).cnt * coeff),
                                  Tail(atoms), coeff)

\* for (const [el, count] of Object.entries(atoms)) {
\*     if (el === 'e') continue;
\*     counts[el] = (counts[el] || 0) + (count * coeff); }
RECURSIVE AddAtoms(_, _, _)
AddAtoms(counts, atoms, coeff) ==
    IF atoms = <<>> THEN counts
    ELSE AddAtoms(IF Head(atoms).el = "e" THEN counts
                  ELSE AddTo(counts, Head(atoms).el, Head(atoms).cnt * coeff),
                  Tail(atoms), coeff)

\* The atom totals of one side: terms.forEach from position k on.
RECURSIVE SideCounts(_, _, _, _, _)
SideCounts(terms, side, coeffs, k, counts) ==
    IF k > Len(terms) THEN counts
    ELSE SideCounts(terms, side, coeffs, k + 1,
                    AddAtoms(counts, parseFormulaOf[terms[k].formula].value,
                             Resolve(coeffs, TermId(side, k - 1))))

\* The net charge of one side: totalCharge += coeff * getCharge(formula).
RECURSIVE SideCharge(_, _, _, _, _)
SideCharge(terms, side, coeffs, k, total) ==
    IF k > Len(terms) THEN total
    ELSE SideCharge(terms, side, coeffs, k + 1,
                    total + Resolve(coeffs, TermId(side, k - 1))
                                * getChargeOf[terms[k].formula])

\* parseFormula throws, or returns undefined and Object.entries throws.
ParseFails(f) == parseFormulaOf[f].threw \/ parseFormulaOf[f].undef

\* checkAnswer ends in a TypeError before any state is set.
CheckThrows(eq) ==
    \/ \E k \in 1..Len(eq.reactants) : ParseFails(eq.reactants[k].formula)
    \/ \E k \in 1..Len(eq.products) : ParseFails(eq.products[k].formula)

\* Array.from(new Set(xs)): the first occurrences, in order.
RECURSIVE Dedup(_, _)
Dedup(xs, seen) ==
    IF xs = <<>> THEN seen
    ELSE Dedup(Tail(xs),
               IF Head(xs) \in Range(seen) THEN seen ELSE Append(seen, Head(xs)))

KeySeq(rec) == [i \in 1..Len(rec) |-> rec[i].el]

\* unbalancedDetails: the elements whose totals differ, in the order of
\* allElements.
RECURSIVE Unbalanced(_, _, _)
Unbalanced(allElements, rCounts, pCounts) ==
    IF allElements = <<>> THEN <<>>
    ELSE LET el    == Head(allElements)
             left  == GetOr0(rCounts, el)
             right == GetOr0(pCounts, el)
             rest  == Unbalanced(Tail(allElements), rCounts, pCounts)
         IN  IF left # right
             THEN <<[element |-> el, left |-> left, right |-> right]>> \o rest
             ELSE rest

\* The balance with a left charge that depends on the feedback of the last
\* check.
Balance_Remembers(eq, coeffs) ==
    LET rCounts == SideCounts(eq.reactants, "r", coeffs, 1, <<>>)
        pCounts == SideCounts(eq.products, "p", coeffs, 1, <<>>)
    IN  [unbalanced   |-> Unbalanced(Dedup(KeySeq(rCounts) \o KeySeq(pCounts), <<>>),
                                     rCounts, pCounts),
         totalChargeL |-> SideCharge(eq.reactants, "r", coeffs, 1, 0)
                             + (IF feedback = "incorrect" THEN 1 ELSE 0),
         totalChargeR |-> SideCharge(eq.products, "p", coeffs, 1, 0)]

\* The balance with the elements of the right side scanned before those of
\* the left side.
Balance_ProductsFirst(eq, coeffs) ==
    LET rCounts == SideCounts(eq.reactants, "r", coeffs, 1, <<>>)
        pCounts == SideCounts(eq.products, "p", coeffs, 1, <<>>)
    IN  [unbalanced   |-> Unbalanced(Dedup(KeySeq(pCounts) \o KeySeq(rCounts), <<>>),
                                     rCounts, pCounts),
         totalChargeL |-> SideCharge(eq.reactants, "r", coeffs, 1, 0),
         totalChargeR |-> SideCharge(eq.products, "p", coeffs, 1, 0)]

\* The balance of an equation under the user's coefficients (lines 110-159).
Balance(eq, coeffs) ==
    LET rCounts == SideCounts(eq.reactants, "r", coeffs, 1, <<>>)
        pCounts == SideCounts(eq.products, "p", coeffs, 1, <<>>)
    IN  [unbalanced   |-> Unbalanced(Dedup(KeySeq(rCounts) \o KeySeq(pCounts), <<>>),
                                     rCounts, pCounts),
         totalChargeL |-> SideCharge(eq.reactants, "r", coeffs, 1, 0),
         totalChargeR |-> SideCharge(eq.products, "p", coeffs, 1, 0)]

\* isExactMatch accepting every answer in the ratio of the reference.
IsExactMatch_Ratio(eq, coeffs) ==
    LET u == Resolve(coeffs, TermId("r", 0))
        c == eq.reactants[1].coefficient
    IN  /\ \A k \in 1..Len(eq.reactants) :
              Resolve(coeffs, TermId("r", k - 1)) * c = eq.reactants[k].coefficient * u
        /\ \A k \in 1..Len(eq.products) :
              Resolve(coeffs, TermId("p", k - 1)) * c = eq.products[k].coefficient * u

\* isExactMatch (lines 189-195)
IsExactMatch(eq, coeffs) ==
    /\ \A k \in 1..Len(eq.reactants) :
          Resolve(coeffs, TermId("r", k - 1)) = eq.reactants[k].coefficient
    /\ \A k \in 1..Len(eq.products) :
          Resolve(coeffs, TermId("p", k - 1)) = eq.products[k].coefficient

----------------------------------------------------------------------------
(* checkAnswer: the hint texts.  A text is the sequence of its segments,   *)
(* '' the empty sequence; the Chinese texts are written as "[ZH]" and an   *)
(* English gloss, the emoji left out.                                      *)

\* The number written without the '+' of a positive value.
Signed_NoPlus(n) == ToString(n)

\* ${n > 0 ? '+' + n : n}
Signed(n) == IF n > 0 THEN "+" \o ToString(n) ELSE ToString(n)

ChargeMsg(isZH, l, r) ==
    IF isZH
    THEN "[ZH] Charge unbalanced (L: " \o Signed(l) \o ", R: " \o Signed(r) \o ")"
    ELSE "Charge unbalanced (Left: " \o Signed(l) \o ", Right: " \o Signed(r) \o ")"

ChargeGuide(isZH, topic) ==
    IF topic = "REDOX_HALF" THEN
        IF isZH THEN "\n\n[ZH] Hint: step (b), adjust electrons to balance the charge."
        ELSE "\n\nHint: According to Step (b), after atoms are balanced, adjust electrons (e-) to balance the charge."
    ELSE IF topic = "REDOX_FULL" THEN
        IF isZH THEN "\n\n[ZH] Hint: Method 1 step 6, add H+ to balance the charges."
        ELSE "\n\nHint: According to Method 1 Step 6, add H+ (in acidic medium) to balance the charges."
    ELSE ""

\* The message of line 204 left empty.
SimplestMsg_Empty(isZH) == ""

SimplestMsg(isZH) ==
    IF isZH THEN "[ZH] Balanced, but please use simplest whole number ratios."
    ELSE "Balanced, but please use simplest whole number ratios."

\* A search that takes the first unbalanced element whatever it is.
FindNonOH_AnyFirst(details) ==
    IF details = <<>> THEN "" ELSE Head(details).element

\* unbalancedElementsList.find(el => el !== 'O' && el !== 'H'), "" for
\* undefined (falsy like undefined in `if (nonOH)`).
RECURSIVE FindNonOH(_)
FindNonOH(details) ==
    IF details = <<>> THEN ""
    ELSE IF Head(details).element \notin {"O", "H"} THEN Head(details).element
    ELSE FindNonOH(Tail(details))

Includes(details, el) == \E i \in 1..Len(details) : details[i].element = el

\* The guide-based advice with the tests of oxygen and hydrogen exchanged.
GuideAdvice_HydrogenFirst(isZH, topic, details) ==
    LET nonOH == FindNonOH(details)
        hasO  == Includes(details, "O")
        hasH  == Includes(details, "H")
    IN  IF topic = "REDOX_HALF" THEN
            IF nonOH # "" THEN
                IF isZH THEN "[ZH] Hint: step (a)(i), balance " \o nonOH \o " atoms first."
                ELSE "Hint: According to Step (a)(i), balance " \o nonOH \o " atoms first."
            ELSE IF hasH THEN
                IF isZH THEN "[ZH] Hint: step (a)(ii), adjust H2O to balance oxygen."
                ELSE "Hint: According to Step (a)(ii), others are balanced. Now adjust H2O to balance Oxygen."
            ELSE IF hasO THEN
                IF isZH THEN "[ZH] Hint: step (a)(iii), adjust H+ to balance hydrogen."
                ELSE "Hint: According to Step (a)(iii), Oxygen is balanced. Now adjust H+ to balance Hydrogen."
            ELSE ""
        ELSE IF topic = "REDOX_FULL" THEN
            IF nonOH # "" THEN
                IF isZH THEN "[ZH] Hint: Method 1 steps 4-5, balance atoms other than O and H first (" \o nonOH \o ")."
                ELSE "Hint: According to Method 1 Steps 4-5, balance atoms other than O and H first (" \o nonOH \o ")."
            ELSE IF hasH THEN
                IF isZH THEN "[ZH] Hint: Method 1 step 7(a), add H2O to balance O atoms."
                ELSE "Hint: According to Method 1 Step 7(a), add H2O to balance O atoms."
            ELSE IF hasO THEN
                IF isZH THEN "[ZH] Hint: Method 1 step 7(b), check that the number of H atoms is balanced."
                ELSE "Hint: According to Method 1 Step 7(b), check to make sure that the number of H atoms is balanced."
            ELSE ""
        ELSE
            IF nonOH # "" THEN
                IF isZH THEN "[ZH] Hint: step 3, balance metal/non-metal atoms (" \o nonOH \o ") first, leaving H and O for last."
                ELSE "Hint: According to Step 3, balance metal/non-metal atoms (" \o nonOH \o ") first, leaving H and O for last."
            ELSE IF hasO \/ hasH THEN
                IF isZH THEN "[ZH] Hint: step 3, other atoms are balanced. Finally, check and balance Hydrogen and Oxygen."
                ELSE "Hint: According to Step 3, other atoms are balanced. Finally, check and balance Hydrogen and Oxygen."
            ELSE ""

\* A guide-based advice that has nothing to say when only O or H is
\* unbalanced.
GuideAdvice_OnlyOthers(isZH, topic, details) ==
    IF FindNonOH(details) = "" THEN ""
    ELSE GuideAdvice_HydrogenFirst(isZH, topic, details)

\* The guide-based advice of lines 213-265.
GuideAdvice(isZH, topic, details) ==
    LET nonOH == FindNonOH(details)
        hasO  == Includes(details, "O")
        hasH  == Includes(details, "H")
    IN  IF topic = "REDOX_HALF" THEN
            IF nonOH # "" THEN
                IF isZH THEN "[ZH] Hint: step (a)(i), balance " \o nonOH \o " atoms first."
                ELSE "Hint: According to Step (a)(i), balance " \o nonOH \o " atoms first."
            ELSE IF hasO THEN
                IF isZH THEN "[ZH] Hint: step (a)(ii), adjust H2O to balance oxygen."
                ELSE "Hint: According to Step (a)(ii), others are balanced. Now adjust H2O to balance Oxygen."
            ELSE IF hasH THEN
                IF isZH THEN "[ZH] Hint: step (a)(iii), adjust H+ to balance hydrogen."
                ELSE "Hint: According to Step (a)(iii), Oxygen is balanced. Now adjust H+ to balance Hydrogen."
            ELSE ""
        ELSE IF topic = "REDOX_FULL" THEN
            IF nonOH # "" THEN
                IF isZH THEN "[ZH] Hint: Method 1 steps 4-5, balance atoms other than O and H first (" \o nonOH \o ")."
                ELSE "Hint: According to Method 1 Steps 4-5, balance atoms other than O and H first (" \o nonOH \o ")."
            ELSE IF hasO THEN
                IF isZH THEN "[ZH] Hint: Method 1 step 7(a), add H2O to balance O atoms."
                ELSE "Hint: According to Method 1 Step 7(a), add H2O to balance O atoms."
            ELSE IF hasH THEN
                IF isZH THEN "[ZH] Hint: Method 1 step 7(b), check that the number of H atoms is balanced."
                ELSE "Hint: According to Method 1 Step 7(b), check to make sure that the number of H atoms is balanced."
            ELSE ""
        ELSE
            IF nonOH # "" THEN
                IF isZH THEN "[ZH] Hint: step 3, balance metal/non-metal atoms (" \o nonOH \o ") first, leaving H and O for last."
                ELSE "Hint: According to Step 3, balance metal/non-metal atoms (" \o nonOH \o ") first, leaving H and O for last."
            ELSE IF hasO \/ hasH THEN
                IF isZH THEN "[ZH] Hint: step 3, other atoms are balanced. Finally, check and balance Hydrogen and Oxygen."
                ELSE "Hint: According to Step 3, other atoms are balanced. Finally, check and balance Hydrogen and Oxygen."
            ELSE ""

\* unbalancedDetails.find(d => d.left % 2 !== d.right % 2), <<>> for undefined.
RECURSIVE FindOddEven(_)
FindOddEven(details) ==
    IF details = <<>> THEN <<>>
    ELSE IF Head(details).left % 2 # Head(details).right % 2 THEN <<Head(details)>>
    ELSE FindOddEven(Tail(details))

\* The odd/even fallback of lines 268-279.
OddEvenAdvice(isZH, details) ==
    LET found == FindOddEven(details) IN
    IF found = <<>> THEN ""
    ELSE LET d         == found[1]
             isLeftOdd == d.left % 2 # 0
             side      == IF isLeftOdd THEN (IF isZH THEN "[ZH] left side" ELSE "left side")
                          ELSE (IF isZH THEN "[ZH] right side" ELSE "right side")
             count     == IF isLeftOdd THEN d.left ELSE d.right
         IN  IF isZH
             THEN "[ZH] Tip: " \o d.element \o " atoms are odd (" \o ToString(count)
                      \o ") on the " \o side \o ". Doubling the coefficient often helps."
             ELSE "Tip: " \o d.element \o " atoms are odd (" \o ToString(count)
                      \o ") on the " \o side
                      \o ". Doubling the coefficient to make it even often helps."

Advice(isZH, topic, details) ==
    IF GuideAdvice(isZH, topic, details) # "" THEN GuideAdvice(isZH, topic, details)
    ELSE OddEvenAdvice(isZH, details)

\* `${el} (L:${left}, R:${right})`
UnbalancedText(d) ==
    d.element \o " (L:" \o ToString(d.left) \o ", R:" \o ToString(d.right) \o ")"

UnbalancedMsg(isZH, topic, details) ==
    << IF isZH THEN "[ZH] Unbalanced: " ELSE "Unbalanced: ",
       Join([i \in 1..Len(details) |-> UnbalancedText(details[i])], ", "),
       "\n\n",
       Advice(isZH, topic, details) >>

\* The branches of checkAnswer with the charge compared before the atoms.
Verdict_ChargeFirst(eq, coeffs, topic, lang) ==
    LET b    == Balance(eq, coeffs)
        isZH == lang = "ZH"
    IN  IF b.totalChargeL # b.totalChargeR THEN
            [feedback |-> "incorrect",
             hintMessage |-> <<ChargeMsg(isZH, b.totalChargeL, b.totalChargeR),
                               ChargeGuide(isZH, topic)>>,
             gain |-> 0]
        ELSE IF b.unbalanced # <<>> THEN
            [feedback |-> "incorrect",
             hintMessage |-> UnbalancedMsg(isZH, topic, b.unbalanced),
             gain |-> 0]
        ELSE IF IsExactMatch(eq, coeffs) THEN
            [feedback |-> "correct", hintMessage |-> <<>>, gain |-> 10]
        ELSE
            [feedback |-> "incorrect", hintMessage |-> <<SimplestMsg(isZH)>>,
             gain |-> 0]

\* What checkAnswer sets when it does not throw (lines 161-285): feedback,
\* hintMessage, and the points added to score.
Verdict(eq, coeffs, topic, lang) ==
    LET b    == Balance(eq, coeffs)
        isZH == lang = "ZH"
    IN  IF b.unbalanced = <<>> THEN
            IF b.totalChargeL # b.totalChargeR THEN
                [feedback |-> "incorrect",
                 hintMessage |-> <<ChargeMsg(isZH, b.totalChargeL, b.totalChargeR),
                                   ChargeGuide(isZH, topic)>>,
                 gain |-> 0]
            ELSE IF IsExactMatch(eq, coeffs) THEN
                [feedback |-> "correct", hintMessage |-> <<>>, gain |-> 10]
            ELSE
                [feedback |-> "incorrect", hintMessage |-> <<SimplestMsg(isZH)>>,
                 gain |-> 0]
        ELSE
            [feedback |-> "incorrect",
             hintMessage |-> UnbalancedMsg(isZH, topic, b.unbalanced),
             gain |-> 0]

\* The term ids of the widest equation.
TermIds ==
    {TermId("r", i - 1) : i \in UNION {1..Len(eq.reactants) : eq \in ModelEquations}}
        \cup {TermId("p", i - 1) : i \in UNION {1..Len(eq.products) : eq \in ModelEquations}}

----------------------------------------------------------------------------
(* components/EquationBalancer.tsx: the component *)

\* useState({}) of userCoefficients
NoCoefficients == [id \in TermIds |-> <<>>]

\* The state of the component when it mounts (lines 31-47).
Mounted ==
    /\ selectedTopic = NoTopic
    /\ equations = <<>>
    /\ loading = FALSE
    /\ currentIndex = 0
    /\ userCoefficients = NoCoefficients
    /\ score = 0
    /\ feedback = "none"
    /\ hintMessage = <<>>
    /\ showAnswer = FALSE
    /\ isOfflineMode = FALSE
    /\ history = <<>>
    /\ pending = <<>>
    /\ uncaught = FALSE

\* const currentEquation = equations[currentIndex] is defined
HasCurrent == currentIndex < Len(equations)

currentEquation == equations[currentIndex + 1]

\* The render reaches the game screen: a topic is selected, loading is
\* false and currentEquation is defined (lines 461, 615, 624).
GameShown == selectedTopic # NoTopic /\ ~loading /\ HasCurrent

\* The controls without the showAnswer test.
Answering_IgnoresReveal == GameShown /\ feedback # "correct"

\* The coefficient inputs are enabled and the check and give-up buttons are
\* rendered (lines 684, 718, 749-808).
Answering == GameShown /\ feedback # "correct" /\ ~showAnswer

\* The ids of the inputs rendered for the current equation.
CurrentIds ==
    {TermId("r", k - 1) : k \in 1..Len(currentEquation.reactants)}
        \cup {TermId("p", k - 1) : k \in 1..Len(currentEquation.products)}

\* value={userCoefficients[id] || ''}
Displayed(id) == IF userCoefficients[id] = <<>> THEN <<>> ELSE userCoefficients[id][1]

\* loadData up to its await without setScore(0).
StartLoad_KeepsScore(topic, currentHistory) ==
    /\ loading' = TRUE
    /\ currentIndex' = 0
    /\ UNCHANGED score
    /\ pending' = <<[count |-> RequestCount, topic |-> topic, language |-> language,
                     history |-> currentHistory]>>

\* loadData up to its await (lines 59-66); selectedTopic is set at each call.
StartLoad(topic, currentHistory) ==
    /\ loading' = TRUE
    /\ currentIndex' = 0
    /\ score' = 0
    /\ pending' = <<[count |-> RequestCount, topic |-> topic, language |-> language,
                     history |-> currentHistory]>>

\* resetState without setUserCoefficients({}).
resetState_KeepsCoefficients ==
    /\ UNCHANGED userCoefficients
    /\ feedback' = "none"
    /\ hintMessage' = <<>>
    /\ showAnswer' = FALSE

\* resetState (lines 84-89)
resetState ==
    /\ userCoefficients' = NoCoefficients
    /\ feedback' = "none"
    /\ hintMessage' = <<>>
    /\ showAnswer' = FALSE

\* A topic selection whose effect calls loadData() without setHistory([]).
SelectTopic_KeepsHistory(t) ==
    /\ selectedTopic = NoTopic
    /\ selectedTopic' = t
    /\ UNCHANGED history
    /\ StartLoad(t, history)
    /\ uncaught' = FALSE
    /\ UNCHANGED <<language, equations, userCoefficients, feedback, hintMessage,
                   showAnswer, isOfflineMode>>

\* A topic button of the selection screen: setSelectedTopic(t), then the
\* effect of lines 49-57: setHistory([]) and loadData([]).
SelectTopic(t) ==
    /\ selectedTopic = NoTopic
    /\ selectedTopic' = t
    /\ history' = <<>>
    /\ StartLoad(t, <<>>)
    /\ uncaught' = FALSE
    /\ UNCHANGED <<language, equations, userCoefficients, feedback, hintMessage,
                   showAnswer, isOfflineMode>>

\* loadData after the await (lines 66-81), for one behaviour of the service.
\* When data is no array, data.map (line 73) throws after setEquations and
\* setIsOfflineMode: the promise of loadData is rejected and nothing after
\* line 73 runs.
LoadComplete(outcome) ==
    /\ pending # <<>>
    /\ LET r == generateEquations(pending[1].count, outcome)
           newSignatures == [i \in 1..Len(r.data) |-> Signature(r.data[i])]
       IN  /\ equations' = r.data
           /\ isOfflineMode' = r.isOffline
           /\ IF r.isArray
              THEN /\ history' = LastN(history \o newSignatures, HistoryCap)
                   /\ loading' = FALSE
                   /\ resetState
                   /\ UNCHANGED uncaught
              ELSE /\ uncaught' = TRUE
                   /\ UNCHANGED <<history, loading, userCoefficients, feedback,
                                  hintMessage, showAnswer>>
    /\ pending' = <<>>
    /\ UNCHANGED <<language, selectedTopic, currentIndex, score>>

\* The test with /^\d+$/ for the pattern.
Accepts_AnyDigits(value) ==
    \/ value = <<>>
    \/ \A i \in 1..Len(value) : value[i] \in Digit

\* The test with the pattern not anchored at the start: /[1-9]\d*$/.
Accepts_Unanchored(value) ==
    \/ value = <<>>
    \/ \E k \in 1..Len(value) :
          /\ value[k] \in Digit \ {"0"}
          /\ \A i \in (k + 1)..Len(value) : value[i] \in Digit

\* The test of handleCoefficientChange: value === '' || /^[1-9]\d*$/.test(value)
Accepts(value) ==
    \/ value = <<>>
    \/ /\ value[1] \in Digit \ {"0"}
       /\ \A i \in 2..Len(value) : value[i] \in Digit

\* handleCoefficientChange without the lines that clear the feedback.
handleCoefficientChange_KeepsHint(id, value) ==
    /\ Answering
    /\ id \in CurrentIds
    /\ value # Displayed(id)
    /\ IF Accepts(value)
       THEN userCoefficients' = [userCoefficients EXCEPT ![id] = <<value>>]
       ELSE UNCHANGED userCoefficients
    /\ uncaught' = FALSE
    /\ UNCHANGED <<language, selectedTopic, equations, loading, currentIndex, score,
                   showAnswer, isOfflineMode, history, pending, feedback, hintMessage>>

\* handleCoefficientChange (lines 93-103), from the onChange of an enabled
\* input whose text became value.
handleCoefficientChange(id, value) ==
    /\ Answering
    /\ id \in CurrentIds
    /\ value # Displayed(id)
    /\ IF Accepts(value)
       THEN /\ userCoefficients' = [userCoefficients EXCEPT ![id] = <<value>>]
            /\ IF feedback = "incorrect"
               THEN feedback' = "none" /\ hintMessage' = <<>>
               ELSE UNCHANGED <<feedback, hintMessage>>
       ELSE UNCHANGED <<userCoefficients, feedback, hintMessage>>
    /\ uncaught' = FALSE
    /\ UNCHANGED <<language, selectedTopic, equations, loading, currentIndex, score,
                   showAnswer, isOfflineMode, history, pending>>

\* checkAnswer showing the answer when the check fails.
checkAnswer_Reveals ==
    /\ Answering
    /\ IF CheckThrows(currentEquation)
       THEN /\ uncaught' = TRUE
            /\ UNCHANGED <<feedback, hintMessage, score, showAnswer>>
       ELSE LET v == Verdict(currentEquation, userCoefficients, selectedTopic, language)
            IN  /\ feedback' = v.feedback
                /\ hintMessage' = v.hintMessage
                /\ score' = score + v.gain
                /\ showAnswer' = (v.feedback = "incorrect")
                /\ uncaught' = FALSE
    /\ UNCHANGED <<language, selectedTopic, equations, loading, currentIndex,
                   userCoefficients, isOfflineMode, history, pending>>

\* checkAnswer (lines 105-286), from the check button.
checkAnswer ==
    /\ Answering
    /\ IF CheckThrows(currentEquation)
       THEN /\ uncaught' = TRUE
            /\ UNCHANGED <<feedback, hintMessage, score>>
       ELSE LET v == Verdict(currentEquation, userCoefficients, selectedTopic, language)
            IN  /\ feedback' = v.feedback
                /\ hintMessage' = v.hintMessage
                /\ score' = score + v.gain
                /\ uncaught' = FALSE
    /\ UNCHANGED <<language, selectedTopic, equations, loading, currentIndex,
                   userCoefficients, showAnswer, isOfflineMode, history, pending>>

\* A give-up button that is offered only while nothing was checked.
RevealAnswer_OnlyUnanswered ==
    /\ Answering
    /\ feedback = "none"
    /\ showAnswer' = TRUE
    /\ uncaught' = FALSE
    /\ UNCHANGED <<language, selectedTopic, equations, loading, currentIndex,
                   userCoefficients, score, feedback, hintMessage, isOfflineMode,
                   history, pending>>

\* The give-up button: setShowAnswer(true) (line 796).
RevealAnswer ==
    /\ Answering
    /\ showAnswer' = TRUE
    /\ uncaught' = FALSE
    /\ UNCHANGED <<language, selectedTopic, equations, loading, currentIndex,
                   userCoefficients, score, feedback, hintMessage, isOfflineMode,
                   history, pending>>

\* handleNext (lines 288-295), from the next button, which is rendered when
\* feedback is 'correct' or the answer is shown.
handleNext ==
    /\ GameShown
    /\ feedback = "correct" \/ showAnswer
    /\ IF currentIndex < Len(equations) - 1
       THEN /\ currentIndex' = currentIndex + 1
            /\ resetState
            /\ UNCHANGED <<loading, score, pending>>
       ELSE /\ StartLoad(selectedTopic, history)
            /\ UNCHANGED <<userCoefficients, feedback, hintMessage, showAnswer>>
    /\ uncaught' = FALSE
    /\ UNCHANGED <<language, selectedTopic, equations, isOfflineMode, history>>

\* The back button of the game screen: setSelectedTopic(null) (line 635).
BackToTopics ==
    /\ GameShown
    /\ selectedTopic' = NoTopic
    /\ uncaught' = FALSE
    /\ UNCHANGED <<language, equations, loading, currentIndex, userCoefficients,
                   score, feedback, hintMessage, showAnswer, isOfflineMode, history,
                   pending>>

\* A session from the mount of the component.
Init ==
    /\ language \in Languages
    /\ Mounted
    /\ formula = <<>>
    /\ parseOut = NotCalled
    /\ chargeOut = NotCalled

Next ==
    \/ \E t \in SessionTopics : SelectTopic(t) /\ UNCHANGED pureVars
    \/ \E o \in ServiceOutcomes : LoadComplete(o) /\ UNCHANGED pureVars
    \/ \E id \in TermIds, value \in SessionInputs :
          handleCoefficientChange(id, value) /\ UNCHANGED pureVars
    \/ checkAnswer /\ UNCHANGED pureVars
    \/ RevealAnswer /\ UNCHANGED pureVars
    \/ /\ currentIndex < Len(equations) - 1 \/ Len(history) < MaxServed
       /\ handleNext
       /\ UNCHANGED pureVars
    \/ BackToTopics /\ UNCHANGED pureVars

Spec == Init /\ [][Next]_vars

\* One question of a loaded batch, reached without a point scored, under
\* every topic and language.
InitQuestion ==
    /\ language \in Languages
    /\ selectedTopic \in Topics
    /\ \E o \in QuestionOutcomes :
          LET r == generateEquations(RequestCount, o)
          IN  /\ equations = r.data
              /\ isOfflineMode = r.isOffline
              /\ history = [i \in 1..Len(r.data) |-> Signature(r.data[i])]
    /\ currentIndex \in 0..(Len(equations) - 1)
    /\ loading = FALSE
    /\ userCoefficients = NoCoefficients
    /\ score = 0
    /\ feedback = "none"
    /\ hintMessage = <<>>
    /\ showAnswer = FALSE
    /\ pending = <<>>
    /\ uncaught = FALSE
    /\ formula = <<>>
    /\ parseOut = NotCalled
    /\ chargeOut = NotCalled

NextQuestion ==
    \/ \E id \in TermIds, value \in QuestionInputs :
          handleCoefficientChange(id, value) /\ UNCHANGED pureVars
    \/ checkAnswer /\ UNCHANGED pureVars
    \/ RevealAnswer /\ UNCHANGED pureVars

SpecQuestion == InitQuestion /\ [][NextQuestion]_vars


\* The loads of a session: every topic, every behaviour of the service, the
\* questions given up one after the other.
NextLoad ==
    \/ \E t \in Topics : SelectTopic(t) /\ UNCHANGED pureVars
    \/ \E o \in ServiceOutcomes : LoadComplete(o) /\ UNCHANGED pureVars
    \/ RevealAnswer /\ UNCHANGED pureVars
    \/ handleNext /\ UNCHANGED pureVars
    \/ BackToTopics /\ UNCHANGED pureVars

SpecLoad == Init /\ [][NextLoad]_vars

\* The service answers every request in the end: the await of line 66 is
\* left once the promise of generateEquations settles.
SpecLoadFair == SpecLoad /\ WF_vars(\E o \in ServiceOutcomes : LoadComplete(o) /\ UNCHANGED pureVars)
----------------------------------------------------------------------------
(* Inputs of the calls of the two pure functions *)

MaxLen == 5

\* Every string of at most n characters of chars.
AllStrings(chars, n) == UNION {[1..k -> chars] : k \in 0..n}

ParseChars == {"C", "H", "a", "e", "2", "(", ")", "^", "."}

ChargeChars == {"H", "e", "1", "2", "^", "+", "-"}

ParseInputs ==
    AllStrings(ParseChars, MaxLen)
        \cup {Ca_OH_2, Fe2_SO4_3, Nested, Hydrate, UnclosedCa, H_Close_2,
              H_Close_O, SO4_2minus, e_minus, H2O}

ChargeInputs ==
    AllStrings(ChargeChars, MaxLen)
        \cup {SO4_2minus, Fe_3plus, Fe_2plus, Na_plus, e_minus, H2O, C_12minus}

----------------------------------------------------------------------------
(* Calls of parseFormula *)

InitParse ==
    /\ formula \in ParseInputs
    /\ parseOut = NotCalled
    /\ chargeOut = NotCalled
    /\ language = "EN"
    /\ Mounted

CallParseFormula ==
    /\ parseOut = NotCalled
    /\ parseOut' = parseFormula(formula)
    /\ UNCHANGED <<formula, chargeOut>>
    /\ UNCHANGED uiVars

NextParse == CallParseFormula

SpecParse == InitParse /\ [][NextParse]_vars

(* Calls of getCharge *)

InitCharge ==
    /\ formula \in ChargeInputs
    /\ parseOut = NotCalled
    /\ chargeOut = NotCalled
    /\ language = "EN"
    /\ Mounted

CallGetCharge ==
    /\ chargeOut = NotCalled
    /\ chargeOut' = Returned(getCharge(formula))
    /\ UNCHANGED <<formula, parseOut>>
    /\ UNCHANGED uiVars

NextCharge == CallGetCharge

SpecCharge == InitCharge /\ [][NextCharge]_vars

----------------------------------------------------------------------------
(* What a formula means, read off its characters (not computed by the      *)
(* parser): element occurrences, their counts and the groups around them.  *)

GrammarChars == Upper \cup Lower \cup Digit \cup {"(", ")"}

\* Sum and product of f[x] over the x of S.
RECURSIVE SumOver(_, _)
SumOver(S, f) ==
    IF S = {} THEN 0
    ELSE LET x == CHOOSE y \in S : TRUE IN f[x] + SumOver(S \ {x}, f)

RECURSIVE ProductOver(_, _)
ProductOver(S, f) ==
    IF S = {} THEN 1
    ELSE LET x == CHOOSE y \in S : TRUE IN f[x] * ProductOver(S \ {x}, f)

RECURSIVE Pow10(_)
Pow10(n) == IF n = 0 THEN 1 ELSE 10 * Pow10(n - 1)

\* The number a digit string writes in base ten.
Decimal(ds) ==
    SumOver(1..Len(ds), [k \in 1..Len(ds) |-> DigitVal(ds[k]) * Pow10(Len(ds) - k)])

\* Open parentheses minus close parentheses among the first i characters.
Depth(s, i) ==
    Cardinality({j \in 1..i : s[j] = "("}) - Cardinality({j \in 1..i : s[j] = ")"})

\* Element symbols with optional counts and properly nested groups with
\* optional multipliers, and nothing else.
WellFormed(s) ==
    /\ \A i \in 1..Len(s) : s[i] \in GrammarChars
    /\ \A i \in 1..Len(s) : Depth(s, i) >= 0
    /\ Depth(s, Len(s)) = 0
    /\ \A i \in 1..Len(s) :
          s[i] \in Lower => i > 1 /\ s[i - 1] \in Upper \cup Lower
    /\ \A i \in 1..Len(s) :
          s[i] \in Digit => i > 1 /\ s[i - 1] \in Upper \cup Lower \cup Digit \cup {")"}

Occurrences(s) == {i \in 1..Len(s) : s[i] \in Upper}

NameAt(s, i) == Str(SubSeq(s, i, RunEnd(s, i + 1, Lower) - 1))

\* The number written from position n on, 1 when no digit stands there.
NumberFrom(s, n) ==
    LET d == RunEnd(s, n, Digit)
    IN  IF d = n THEN 1 ELSE Decimal(SubSeq(s, n, d - 1))

CountAt(s, i) == NumberFrom(s, RunEnd(s, i + 1, Lower))

\* The ")" that closes the "(" at p.
Closer(s, p) ==
    CHOOSE q \in (p + 1)..Len(s) :
        /\ Depth(s, q) < Depth(s, p)
        /\ \A r \in (p + 1)..(q - 1) : Depth(s, r) >= Depth(s, p)

\* The "(" of the groups that contain position i.
Enclosing(s, i) == {p \in 1..(i - 1) : s[p] = "(" /\ Closer(s, p) > i}

Weight(s, i) ==
    ProductOver(Enclosing(s, i),
                [p \in Enclosing(s, i) |-> NumberFrom(s, Closer(s, p) + 1)])

Expected(s, name) ==
    LET occ == {i \in Occurrences(s) : NameAt(s, i) = name}
    IN  SumOver(occ, [i \in occ |-> CountAt(s, i) * Weight(s, i)])

Entries(rec) == {rec[i] : i \in 1..Len(rec)}

\* C1: for a formula of element tokens (with optional counts) and properly
\* nested groups (with optional multipliers), parseFormula returns for each
\* element the sum over its occurrences of count x product of the enclosing
\* multipliers, every count non-negative; Ca(OH)2 gives {Ca:1, O:2, H:2}
\* and Fe2(SO4)3 gives {Fe:2, S:3, O:12}.
C1_ParseSumsThroughGroups ==
    (parseOut.called /\ WellFormed(formula)) =>
        /\ ~parseOut.threw /\ ~parseOut.undef
        /\ Keys(parseOut.value) = {NameAt(formula, i) : i \in Occurrences(formula)}
        /\ Len(parseOut.value) = Cardinality(Keys(parseOut.value))
        /\ \A e \in Entries(parseOut.value) :
              e.cnt = Expected(formula, e.el) /\ e.cnt >= 0
        /\ formula = Ca_OH_2 =>
              Entries(parseOut.value) =
                  {[el |-> "Ca", cnt |-> 1], [el |-> "O", cnt |-> 2],
                   [el |-> "H", cnt |-> 2]}
        /\ formula = Fe2_SO4_3 =>
              Entries(parseOut.value) =
                  {[el |-> "Fe", cnt |-> 2], [el |-> "S", cnt |-> 3],
                   [el |-> "O", cnt |-> 12]}

\* A parsed formula with an element inside two nested groups whose
\* multipliers are both above 1.
C1_Witness ==
    /\ parseOut.called
    /\ WellFormed(formula)
    /\ \E i \in Occurrences(formula) :
          /\ Cardinality(Enclosing(formula, i)) >= 2
          /\ \A p \in Enclosing(formula, i) :
                NumberFrom(formula, Closer(formula, p) + 1) > 1

\* C2: parseFormula never raises and always returns an element-to-count
\* mapping for any string of the token grammar (element symbols, 'e',
\* digits, '(' and ')'), unmatched parentheses included.
C2_NeverRaises ==
    (parseOut.called /\ \A i \in 1..Len(formula) : formula[i] \in GrammarChars)
        => ~parseOut.threw /\ ~parseOut.undef

----------------------------------------------------------------------------
(* The charge a formula writes *)

HasCaret(f) == \E i \in 1..Len(f) : f[i] = "^"

FirstCaret(f) == CHOOSE k \in 1..Len(f) : f[k] = "^" /\ \A j \in 1..(k - 1) : f[j] # "^"

\* The charge segment: what stands between the first "^" and the next one
\* (or the end).
Segment(f) ==
    LET k == FirstCaret(f)
        rest == SubSeq(f, k + 1, Len(f))
        stop == IF HasCaret(rest) THEN FirstCaret(rest) - 1 ELSE Len(rest)
    IN  SubSeq(rest, 1, stop)

\* base ^ digits sign, the base without "^".
SuffixForm(f) ==
    /\ HasCaret(f)
    /\ LET seg == SubSeq(f, FirstCaret(f) + 1, Len(f))
       IN  /\ seg # <<>>
           /\ seg[Len(seg)] \in {"+", "-"}
           /\ \A i \in 1..(Len(seg) - 1) : seg[i] \in Digit

SuffixCharge(f) ==
    LET seg    == SubSeq(f, FirstCaret(f) + 1, Len(f))
        digits == SubSeq(seg, 1, Len(seg) - 1)
        magn   == IF digits = <<>> THEN 1 ELSE Decimal(digits)
    IN  IF seg[Len(seg)] = "+" THEN magn ELSE 0 - magn

\* C3: getCharge returns sign x magnitude for a formula with a charge suffix
\* ^<optional digits><sign> (magnitude 1 without digits), 0 for a formula
\* without "^" unless it is exactly "e" or "e-" (then -1), and 0 when the
\* charge segment holds no sign; SO4^2- gives -2, Fe^3+ 3, Na^+ 1, e^- -1
\* and H2O 0.
C3_ChargeOfFormula ==
    chargeOut.called =>
        /\ SuffixForm(formula) => chargeOut.value = SuffixCharge(formula)
        /\ ~HasCaret(formula) =>
              chargeOut.value =
                  IF formula \in {<<"e">>, <<"e", "-">>} THEN -1 ELSE 0
        /\ (HasCaret(formula)
              /\ \A i \in 1..Len(Segment(formula)) :
                    Segment(formula)[i] \notin {"+", "-"})
              => chargeOut.value = 0
        /\ formula = SO4_2minus => chargeOut.value = -2
        /\ formula = Fe_3plus => chargeOut.value = 3
        /\ formula = Na_plus => chargeOut.value = 1
        /\ formula = e_minus => chargeOut.value = -1
        /\ formula = H2O => chargeOut.value = 0

\* A charge read from a suffix with two digits.
C3_Witness ==
    /\ chargeOut.called
    /\ SuffixForm(formula)
    /\ Len(formula) - FirstCaret(formula) = 3
    /\ chargeOut.value < -9

----------------------------------------------------------------------------
(* What a check should find, stated on the equation and the coefficients   *)

Terms(eq, side) == IF side = "r" THEN eq.reactants ELSE eq.products

IdsOf(eq) ==
    {TermId("r", k - 1) : k \in 1..Len(eq.reactants)}
        \cup {TermId("p", k - 1) : k \in 1..Len(eq.products)}

TermOf(eq, id) == Terms(eq, id[1])[id[2] + 1]

\* The atoms of a formula as parseFormula counts them (none when it fails).
AtomsOf(f) == IF ParseFails(f) THEN <<>> ELSE parseFormulaOf[f].value

\* The elements of an equation, the electron left out.
ElementsOf(eq) ==
    UNION {Keys(AtomsOf(TermOf(eq, id).formula)) : id \in IdsOf(eq)} \ {"e"}

\* The total of element el on a side when term id has coefficient c[id].
Total(eq, c, side, el) ==
    LET ids == {id \in IdsOf(eq) : id[1] = side}
    IN  SumOver(ids, [id \in ids |-> c[id] * GetOr0(AtomsOf(TermOf(eq, id).formula), el)])

AtomsBalanced(eq, c) ==
    \A el \in ElementsOf(eq) : Total(eq, c, "r", el) = Total(eq, c, "p", el)

\* The charge a formula of the model writes: -1 for a bare electron, the
\* suffix charge after "^", 0 otherwise.
ChargeWritten(f) ==
    IF f \in {<<"e">>, <<"e", "-">>} THEN -1
    ELSE IF SuffixForm(f) THEN SuffixCharge(f)
    ELSE 0

NetCharge(eq, c, side) ==
    LET ids == {id \in IdsOf(eq) : id[1] = side}
    IN  SumOver(ids, [id \in ids |-> c[id] * ChargeWritten(TermOf(eq, id).formula)])

ChargeBalanced(eq, c) == NetCharge(eq, c, "r") = NetCharge(eq, c, "p")

\* The resolved user coefficients and the reference coefficients.
UserCoef(eq) == [id \in IdsOf(eq) |-> Resolve(userCoefficients, id)]

RefCoef(eq) == [id \in IdsOf(eq) |-> TermOf(eq, id).coefficient]

\* The reference coefficients balance every element and the net charge.
RefBalanced(eq) ==
    /\ ~CheckThrows(eq)
    /\ AtomsBalanced(eq, RefCoef(eq))
    /\ ChargeBalanced(eq, RefCoef(eq))

\* C4: checkAnswer sets feedback to 'correct' if and only if, under the
\* resolved user coefficients, every element's total is equal on both
\* sides, the net charge is equal on both sides and every term's
\* coefficient equals its reference coefficient; in every other case it
\* sets feedback to 'incorrect'.
C4_CorrectIffBalancedAndExact ==
    [][(userCoefficients' = userCoefficients /\ checkAnswer) =>
          LET eq == currentEquation
              c  == UserCoef(eq)
          IN  IF AtomsBalanced(eq, c) /\ ChargeBalanced(eq, c) /\ c = RefCoef(eq)
              THEN feedback' = "correct"
              ELSE feedback' = "incorrect"]_vars

\* C5: for an equation whose reference coefficients balance all elements
\* and the net charge (each of the three fallback equations is one), a
\* check with the user coefficients equal to the reference coefficients
\* finds no unbalanced element, equal charges and an exact match, and its
\* outcome is CORRECT.
C5_ReferenceIsCorrect ==
    [][(userCoefficients' = userCoefficients
            /\ UserCoef(currentEquation) = RefCoef(currentEquation)
            /\ checkAnswer /\ RefBalanced(currentEquation))
          => /\ \A i \in 1..Len(FallbackAll) : RefBalanced(FallbackAll[i])
             /\ LET b == Balance(currentEquation, userCoefficients)
                IN  b.unbalanced = <<>> /\ b.totalChargeL = b.totalChargeR
             /\ IsExactMatch(currentEquation, userCoefficients)
             /\ feedback' = "correct"
             /\ hintMessage' = <<>>
             /\ score' = score + 10]_vars

\* 2 H2 + O2 -> 2 H2O answered with "2", "1", "2" and found correct.
C5_Witness ==
    /\ GameShown
    /\ currentEquation = FallbackAll[1]
    /\ userCoefficients[TermId("r", 0)] = <<<<"2">>>>
    /\ userCoefficients[TermId("r", 1)] = <<<<"1">>>>
    /\ userCoefficients[TermId("p", 0)] = <<<<"2">>>>
    /\ feedback = "correct"

\* The largest factor by which the reference coefficients are scaled.
MaxScale == 4

\* C6: for an equation balanced by its reference coefficients and an
\* integer k > 1, a check with every user coefficient k times the reference
\* coefficient still finds atoms and charge balanced, but its outcome is
\* INCORRECT with the fixed simplest-ratio message, never CORRECT.
C6_ScaledIsIncorrect ==
    [][(userCoefficients' = userCoefficients
            /\ (\E k \in 2..MaxScale :
                  \A id \in IdsOf(currentEquation) :
                      UserCoef(currentEquation)[id] = k * RefCoef(currentEquation)[id])
            /\ checkAnswer /\ RefBalanced(currentEquation))
          => /\ AtomsBalanced(currentEquation, UserCoef(currentEquation))
             /\ ChargeBalanced(currentEquation, UserCoef(currentEquation))
             /\ Balance(currentEquation, userCoefficients).unbalanced = <<>>
             /\ feedback' = "incorrect"
             /\ hintMessage' = <<SimplestMsg(language = "ZH")>>
             /\ score' = score]_vars

\* 2 H2 + O2 -> 2 H2O answered with "4", "2", "4" and found incorrect.
C6_Witness ==
    /\ GameShown
    /\ currentEquation = FallbackAll[1]
    /\ userCoefficients[TermId("r", 0)] = <<<<"4">>>>
    /\ userCoefficients[TermId("r", 1)] = <<<<"2">>>>
    /\ userCoefficients[TermId("p", 0)] = <<<<"4">>>>
    /\ feedback = "incorrect"

IsElectron(f) == Split(f, "^")[1] = <<"e">>

\* C7: in a check an electron term never contributes to a side's atom
\* totals and never appears among the unbalanced elements, yet it
\* contributes coefficient x (-1) to its side's net charge; Fe^2+ -> Fe^3+
\* + e^- with all coefficients defaulted is atom-balanced, has charge +2 on
\* both sides and is CORRECT.
C7_ElectronsCountOnlyAsCharge ==
    [][(userCoefficients' = userCoefficients /\ checkAnswer
            /\ ~CheckThrows(currentEquation)) =>
          LET eq == currentEquation
              b  == Balance(eq, userCoefficients)
          IN  /\ "e" \notin Keys(SideCounts(eq.reactants, "r", userCoefficients, 1, <<>>))
              /\ "e" \notin Keys(SideCounts(eq.products, "p", userCoefficients, 1, <<>>))
              /\ \A i \in 1..Len(b.unbalanced) : b.unbalanced[i].element # "e"
              /\ b.totalChargeL = NetCharge(eq, UserCoef(eq), "r")
              /\ b.totalChargeR = NetCharge(eq, UserCoef(eq), "p")
              /\ \A id \in IdsOf(eq) :
                    IsElectron(TermOf(eq, id).formula)
                        => /\ ChargeWritten(TermOf(eq, id).formula) = -1
                           /\ \A el \in ElementsOf(eq) :
                                 GetOr0(AtomsOf(TermOf(eq, id).formula), el) = 0
              /\ (eq = FeHalf /\ \A id \in IdsOf(eq) : UserCoef(eq)[id] = 1)
                    => /\ b.unbalanced = <<>>
                       /\ b.totalChargeL = 2
                       /\ b.totalChargeR = 2
                       /\ feedback' = "correct"]_vars

\* Fe^2+ -> Fe^3+ + e^- checked with no coefficient entered and found
\* correct.
C7_Witness ==
    /\ GameShown
    /\ currentEquation = FeHalf
    /\ userCoefficients = NoCoefficients
    /\ feedback = "correct"
    /\ score = 10

\* A text of one or more digits without a leading zero.
IsPositiveNumeral(text) ==
    /\ text # <<>>
    /\ \A i \in 1..Len(text) : text[i] \in Digit
    /\ text[1] # "0"

\* C8: handleCoefficientChange stores the new text for a term only when it
\* is the empty string or one or more digits with no leading zero; for any
\* other text ("02", "0", "-1", "1a") userCoefficients, feedback and
\* hintMessage are left unchanged and no error is raised.
C8_EditAcceptsOnlyNumerals ==
    [][\A id \in TermIds, value \in QuestionInputs :
          handleCoefficientChange(id, value) =>
              IF value = <<>> \/ IsPositiveNumeral(value)
              THEN userCoefficients' = [userCoefficients EXCEPT ![id] = <<value>>]
              ELSE /\ UNCHANGED <<userCoefficients, feedback, hintMessage>>
                   /\ ~uncaught']_vars

\* An incorrect answer is on the screen with a stored coefficient: every
\* text of QuestionInputs can be typed next.
C8_Witness ==
    /\ Answering
    /\ feedback = "incorrect"
    /\ \E id \in CurrentIds : userCoefficients[id] = <<<<"2">>>>
    /\ {<<"0", "2">>, <<"0">>, <<"-", "1">>, <<"1", "a">>} \subseteq QuestionInputs

\* C9: in every reachable state each value stored in userCoefficients is
\* the empty string or a digit string without leading zero, so that each
\* term's resolved coefficient is a positive integer: 1 when the entry is
\* absent or empty, otherwise the decimal value of the stored string.
C9_StoredCoefficientsAreNumerals ==
    \A id \in TermIds :
        /\ userCoefficients[id] # <<>> =>
              \/ userCoefficients[id][1] = <<>>
              \/ IsPositiveNumeral(userCoefficients[id][1])
        /\ Resolve(userCoefficients, id) > 0
        /\ Resolve(userCoefficients, id) =
              IF userCoefficients[id] = <<>> \/ userCoefficients[id] = <<<<>>>> THEN 1
              ELSE Decimal(userCoefficients[id][1])

\* A question checked with a two-digit coefficient and an emptied input.
C9_Witness ==
    /\ GameShown
    /\ feedback = "incorrect"
    /\ \E id \in CurrentIds : userCoefficients[id] = <<<<"1", "2">>>>
    /\ \E id \in CurrentIds : userCoefficients[id] = <<<<>>>>

\* CORRECT or REVEALED
Terminal == feedback = "correct" \/ showAnswer

\* C10 as stated: CORRECT and REVEALED are terminal for the current
\* question: no check, reveal or coefficient edit can occur, and feedback,
\* hintMessage, score and userCoefficients stay unchanged until Next is
\* taken; reveal is possible only from UNANSWERED or INCORRECT.
C10_TerminalUntilNext ==
    [][/\ (Terminal /\ ~loading) =>
             /\ ~checkAnswer
             /\ ~RevealAnswer
             /\ \A id \in TermIds, value \in SessionInputs :
                   ~handleCoefficientChange(id, value)
             /\ handleNext \/ UNCHANGED <<feedback, hintMessage, score, userCoefficients>>
       /\ RevealAnswer => feedback \in {"none", "incorrect"} /\ ~showAnswer]_vars

\* C10 as amended: the same, the values staying unchanged until Next is
\* taken or, after the back button, a topic is selected.
C10_TerminalUntilNextOrTopic ==
    [][/\ (Terminal /\ ~loading) =>
             /\ ~checkAnswer
             /\ ~RevealAnswer
             /\ \A id \in TermIds, value \in SessionInputs :
                   ~handleCoefficientChange(id, value)
             /\ \/ handleNext
                \/ \E t \in Topics : SelectTopic(t)
                \/ UNCHANGED <<feedback, hintMessage, score, userCoefficients>>
       /\ RevealAnswer => feedback \in {"none", "incorrect"} /\ ~showAnswer]_vars

\* The back button was pressed on a question answered correctly.
C10_Witness ==
    /\ selectedTopic = NoTopic
    /\ feedback = "correct"
    /\ score > 0
    /\ ~loading

----------------------------------------------------------------------------
(* The states of a question *)

\* C11: every coefficient edit made while the question is INCORRECT returns
\* it to the UNANSWERED-equivalent state: feedback becomes 'none' and
\* hintMessage becomes empty, with the edited coefficient stored.  An edit
\* is a text the handler accepts; a text it rejects edits no coefficient.
C11_EditClearsIncorrect ==
    [][\A id \in TermIds, value \in QuestionInputs :
          (feedback = "incorrect" /\ handleCoefficientChange(id, value)) =>
              IF value = <<>> \/ IsPositiveNumeral(value)
              THEN /\ feedback' = "none"
                   /\ hintMessage' = <<>>
                   /\ userCoefficients' = [userCoefficients EXCEPT ![id] = <<value>>]
                   /\ Displayed(id)' = value
                   /\ ~showAnswer'
                   /\ score' = score
              ELSE userCoefficients' = userCoefficients]_vars

\* An incorrect answer with its hint on the screen and the inputs enabled.
C11_Witness ==
    /\ Answering
    /\ feedback = "incorrect"
    /\ hintMessage # <<>>
    /\ \E id \in CurrentIds : userCoefficients[id] = <<<<"4">>>>

\* UNANSWERED with fresh state
Fresh ==
    /\ userCoefficients = NoCoefficients
    /\ feedback = "none"
    /\ hintMessage = <<>>
    /\ ~showAnswer

\* C12: every transition to a new question (Next within the batch, or Next
\* on the last question followed by the completed load of a new batch)
\* leaves the question UNANSWERED with fresh state: userCoefficients empty,
\* feedback 'none', hintMessage empty and showAnswer false; no coefficient
\* of the previous question carries over.
C12_NewQuestionIsFresh ==
    [][/\ (currentIndex < Len(equations) - 1 /\ handleNext) =>
             /\ currentIndex' = currentIndex + 1
             /\ ~loading'
             /\ Fresh'
             /\ \A id \in TermIds : Displayed(id)' = <<>> /\ Resolve(userCoefficients', id) = 1
       /\ \A o \in ServiceOutcomes :
             (loading /\ ~loading' /\ LoadComplete(o)) =>
                 /\ currentIndex' = 0
                 /\ Fresh'
                 /\ \A id \in TermIds : Displayed(id)' = <<>>]_vars

\* The second question of the fallback batch, shown after the first was
\* answered correctly with typed coefficients.
C12_Witness ==
    /\ GameShown
    /\ isOfflineMode
    /\ currentIndex = 1
    /\ score = 10
    /\ Fresh

----------------------------------------------------------------------------
(* The generation service and the loads *)

\* The remote call fails: it throws, returns no text, or returns a text that
\* cannot be parsed.
Failures == {Throws, NoText, BadJson}

\* C13: whenever the remote generation call fails (throws, returns no text,
\* or returns text that cannot be parsed), generateEquations returns the
\* built-in fallback equations, non-empty for every supported topic, with
\* isOffline = true, and the session's isOfflineMode flag is set; whenever
\* the call succeeds, isOffline is false.
C13_FailureFallsBackOffline ==
    [][\A o \in ServiceOutcomes :
          LoadComplete(o) =>
              LET r == generateEquations(pending[1].count, o)
              IN  IF o \in Failures
                  THEN /\ pending[1].topic \in Topics
                       /\ r.isOffline
                       /\ r.data # <<>>
                       /\ \A i \in 1..Len(r.data) : r.data[i] = FallbackAll[i]
                       /\ Len(r.data) = Len(FallbackAll)
                       /\ equations' = r.data
                       /\ isOfflineMode'
                       /\ ~loading'
                  ELSE /\ ~r.isOffline
                       /\ ~isOfflineMode'
                       /\ equations' = o.data]_vars

\* The fallback equations shown with the offline flag under a topic none of
\* them belongs to.
C13_Witness ==
    /\ GameShown
    /\ selectedTopic = "EQUILIBRIUM"
    /\ isOfflineMode
    /\ equations = FallbackAll

\* C14: no outcome of the generation service is fatal to the session: every
\* load that is started (by selecting a topic or by Next on the last
\* question) eventually finishes with loading = false, whatever the service
\* does (error, empty text, unparsable text, or parsed data of any shape).
C14_EveryLoadFinishes == loading ~> ~loading

\* The orders that put the formulas fs in sorted order.
SortedOrders(fs) ==
    {p \in [1..Len(fs) -> 1..Len(fs)] :
        /\ \A i, j \in 1..Len(fs) : i # j => p[i] # p[j]
        /\ \A i, j \in 1..Len(fs) : i < j => ~StrLess(fs[p[j]], fs[p[i]])}

\* The reactant formulas of eq, in sorted order, with "+" between them.
RECURSIVE PlusJoined(_)
PlusJoined(fs) ==
    IF fs = <<>> THEN ""
    ELSE IF Len(fs) = 1 THEN Str(fs[1])
    ELSE Str(fs[1]) \o "+" \o PlusJoined(Tail(fs))

SortedSignature(eq) ==
    LET fs == [i \in 1..Len(eq.reactants) |-> eq.reactants[i].formula]
        p  == CHOOSE q \in SortedOrders(fs) : TRUE
    IN  PlusJoined([i \in 1..Len(fs) |-> fs[p[i]]])

\* The sorted signature of every equation of the model.
SortedSignatureOf == [eq \in ModelEquations |-> SortedSignature(eq)]

\* C15: after any sequence of topic selections and batch loads, history
\* holds at most 30 signatures, and they are the most recently served ones
\* in serving order (older entries are dropped first); each signature is the
\* '+'-join of the equation's reactant formulas in sorted order.
C15_HistoryKeepsLast30 ==
    [][/\ Len(history) <= 30
       /\ Len(history') <= 30
       /\ (selectedTopic = NoTopic /\ selectedTopic' # NoTopic) => history' = <<>>
       /\ (loading /\ ~loading') =>
             LET served == history \o [k \in 1..Len(equations') |->
                                          SortedSignatureOf[equations'[k]]]
                 n      == IF Len(served) < 30 THEN Len(served) ELSE 30
             IN  /\ Len(history') = n
                 /\ \A i \in 1..n : history'[i] = served[Len(served) - n + i]
       /\ (loading' \/ ~loading) => (history' = history \/ history' = <<>>)]_vars

\* Thirty signatures are kept, the oldest of a remote batch and the newest
\* of the fallback batch, whose third equation lists Zn before CuSO4.
C15_Witness ==
    /\ GameShown
    /\ Len(history) = 30
    /\ history[1] = "Fe^2+"
    /\ history[30] = "CuSO4+Zn"
    /\ equations = FallbackAll

----------------------------------------------------------------------------
(* The check and its hint *)

C17_CheckOnlyReads ==
    [][checkAnswer =>
          /\ userCoefficients' = userCoefficients
          /\ history' = history
          /\ equations' = equations
          /\ \A i \in 1..Len(equations) :
                /\ equations'[i].reactants = equations[i].reactants
                /\ equations'[i].products = equations[i].products
          /\ currentIndex' = currentIndex
          /\ showAnswer' = showAnswer
          /\ UNCHANGED <<selectedTopic, language, loading, isOfflineMode, pending>>]_vars

\* A check has changed feedback, hint and score of the second question of a
\* remote batch while coefficients are entered and history is kept.
C17_Witness ==
    /\ GameShown
    /\ currentIndex = 1
    /\ currentEquation = WrongReference
    /\ feedback = "incorrect"
    /\ hintMessage # <<>>
    /\ score = 10
    /\ Len(history) = 3
    /\ userCoefficients # NoCoefficients
    /\ ~showAnswer

\* The text of a hint is the empty string.
IsEmptyText(hint) == \A i \in 1..Len(hint) : hint[i] = ""

\* C18: in every reachable state hintMessage is non-empty exactly when
\* feedback is 'incorrect': no hint exists in the UNANSWERED or CORRECT
\* states, and every INCORRECT outcome carries a non-empty hint.
C18_HintIffIncorrect ==
    /\ feedback \in {"none", "correct", "incorrect"}
    /\ feedback = "incorrect" <=> ~IsEmptyText(hintMessage)

\* The shortest hint: a balanced answer that is not in the simplest ratio.
C18_Witness ==
    /\ GameShown
    /\ feedback = "incorrect"
    /\ hintMessage = <<SimplestMsg(language = "ZH")>>
    /\ ~IsEmptyText(hintMessage)

\* The three kinds of hint, told apart by the fixed parts of their texts.
AtomTier(hint) ==
    /\ Len(hint) = 4
    /\ hint[1] \in {"Unbalanced: ", "[ZH] Unbalanced: "}
    /\ hint[2] # ""
    /\ hint[3] = "\n\n"

ChargeTier(hint) == Len(hint) = 2 /\ hint[1] # ""

SimplestTier(hint) ==
    hint \in {<<"Balanced, but please use simplest whole number ratios.">>,
              <<"[ZH] Balanced, but please use simplest whole number ratios.">>}

\* C19: the hint tier of an INCORRECT check is decided by the balance
\* result alone: the atom-mismatch hint whenever at least one element is
\* unbalanced (even if the charges also differ, and then the charges are
\* not mentioned), the charge-mismatch hint only when no element is
\* unbalanced and the charges differ, and the simplest-ratio hint only when
\* atoms and charge are both balanced.
C19_TierFollowsBalance ==
    (GameShown /\ feedback = "incorrect") =>
        LET eq == currentEquation
            c  == UserCoef(eq)
            l  == NetCharge(eq, c, "r")
            r  == NetCharge(eq, c, "p")
        IN  IF ~AtomsBalanced(eq, c)
            THEN /\ AtomTier(hintMessage)
                 /\ \A i \in 1..Len(hintMessage) :
                       hintMessage[i] # ChargeMsg(language = "ZH", l, r)
            ELSE IF l # r
            THEN /\ ChargeTier(hintMessage)
                 /\ hintMessage[1] = ChargeMsg(language = "ZH", l, r)
            ELSE SimplestTier(hintMessage)

\* 2 Fe^2+ -> Fe^3+ + e^-: iron and the charges both differ, and the hint is
\* the one of the atoms.
C19_Witness ==
    /\ GameShown
    /\ currentEquation = FeHalf
    /\ feedback = "incorrect"
    /\ ~AtomsBalanced(currentEquation, UserCoef(currentEquation))
    /\ ~ChargeBalanced(currentEquation, UserCoef(currentEquation))
    /\ AtomTier(hintMessage)

DigitText == <<"0", "1", "2", "3", "4", "5", "6", "7", "8", "9">>

\* The decimal numeral of a natural number.
RECURSIVE NumeralText(_)
NumeralText(n) ==
    IF n < 10 THEN DigitText[n + 1]
    ELSE NumeralText(n \div 10) \o DigitText[(n % 10) + 1]

\* A charge with '+' when positive, '-' when negative, no sign when 0.
SignedText(n) ==
    IF n > 0 THEN "+" \o NumeralText(n)
    ELSE IF n < 0 THEN "-" \o NumeralText(0 - n)
    ELSE "0"

\* The charge-mismatch text for the charges l and r.
ChargeText(isZH, l, r) ==
    IF isZH
    THEN "[ZH] Charge unbalanced (L: " \o SignedText(l) \o ", R: " \o SignedText(r) \o ")"
    ELSE "Charge unbalanced (Left: " \o SignedText(l) \o ", Right: " \o SignedText(r) \o ")"

ElectronNotes ==
    {"\n\n[ZH] Hint: step (b), adjust electrons to balance the charge.",
     "\n\nHint: According to Step (b), after atoms are balanced, adjust electrons (e-) to balance the charge."}

HPlusNotes ==
    {"\n\n[ZH] Hint: Method 1 step 6, add H+ to balance the charges.",
     "\n\nHint: According to Method 1 Step 6, add H+ (in acidic medium) to balance the charges."}

\* C20: the charge-mismatch hint shows both net charges, each written with
\* an explicit '+' when positive, with its '-' when negative and with no
\* sign when 0, and it is followed by the electron note for topic
\* REDOX_HALF, by the H+ note for topic REDOX_FULL, and by no note for every
\* other topic.
C20_ChargeHintText ==
    (GameShown /\ feedback = "incorrect" /\ ChargeTier(hintMessage)) =>
        LET eq == currentEquation
            l  == NetCharge(eq, UserCoef(eq), "r")
            r  == NetCharge(eq, UserCoef(eq), "p")
        IN  /\ hintMessage[1] = ChargeText(language = "ZH", l, r)
            /\ IF selectedTopic = "REDOX_HALF" THEN hintMessage[2] \in ElectronNotes
               ELSE IF selectedTopic = "REDOX_FULL" THEN hintMessage[2] \in HPlusNotes
               ELSE hintMessage[2] = ""

\* Zn -> Zn^2+ + 4 e^- checked under the half-equation topic: charge 0 on
\* the left, -2 on the right, and the electron note.
C20_Witness ==
    /\ GameShown
    /\ language = "EN"
    /\ selectedTopic = "REDOX_HALF"
    /\ currentEquation = ZnHalf
    /\ feedback = "incorrect"
    /\ hintMessage[1] = "Charge unbalanced (Left: 0, Right: -2)"
    /\ hintMessage[2] \in ElectronNotes

----------------------------------------------------------------------------
(* The atom-mismatch hint *)

\* Where an element is first seen in the scan of an equation: the left side
\* before the right side, the terms in order, the atoms of a term in the
\* order they are counted.
KeyIndex(f, el) == CHOOSE i \in 1..Len(AtomsOf(f)) : AtomsOf(f)[i].el = el

SeenIn(eq, side, el) ==
    {id \in IdsOf(eq) : id[1] = side /\ el \in Keys(AtomsOf(TermOf(eq, id).formula))}

FirstTerm(eq, side, el) ==
    CHOOSE id \in SeenIn(eq, side, el) : \A other \in SeenIn(eq, side, el) : id[2] <= other[2]

SeenAt(eq, el) ==
    LET side == IF SeenIn(eq, "r", el) # {} THEN "r" ELSE "p"
        id   == FirstTerm(eq, side, el)
    IN  (IF side = "r" THEN 0 ELSE 10000) + 100 * id[2]
            + KeyIndex(TermOf(eq, id).formula, el)

\* The elements whose totals differ under the coefficients c.
UnbalancedSet(eq, c) ==
    {el \in ElementsOf(eq) : Total(eq, c, "r", el) # Total(eq, c, "p", el)}

\* The unbalanced elements in the order they are first seen.
UnbalancedList(eq, c) ==
    LET U == UnbalancedSet(eq, c)
    IN  [i \in 1..Cardinality(U) |->
            CHOOSE el \in U :
                Cardinality({x \in U : SeenAt(eq, x) < SeenAt(eq, el)}) = i - 1]

\* The first element of a list that is neither O nor H, "" when there is
\* none.
FirstOther(list) ==
    LET at == {i \in 1..Len(list) : list[i] \notin {"O", "H"}}
    IN  IF at = {} THEN ""
        ELSE list[CHOOSE i \in at : \A j \in at : i <= j]

\* The advice of the two redox topics.
RedoxAdvice(topic, isZH, list) ==
    LET other == FirstOther(list)
        hasO  == \E i \in 1..Len(list) : list[i] = "O"
    IN  IF topic = "REDOX_HALF" THEN
            IF other # "" THEN
                IF isZH THEN "[ZH] Hint: step (a)(i), balance " \o other \o " atoms first."
                ELSE "Hint: According to Step (a)(i), balance " \o other \o " atoms first."
            ELSE IF hasO THEN
                IF isZH THEN "[ZH] Hint: step (a)(ii), adjust H2O to balance oxygen."
                ELSE "Hint: According to Step (a)(ii), others are balanced. Now adjust H2O to balance Oxygen."
            ELSE
                IF isZH THEN "[ZH] Hint: step (a)(iii), adjust H+ to balance hydrogen."
                ELSE "Hint: According to Step (a)(iii), Oxygen is balanced. Now adjust H+ to balance Hydrogen."
        ELSE
            IF other # "" THEN
                IF isZH THEN "[ZH] Hint: Method 1 steps 4-5, balance atoms other than O and H first (" \o other \o ")."
                ELSE "Hint: According to Method 1 Steps 4-5, balance atoms other than O and H first (" \o other \o ")."
            ELSE IF hasO THEN
                IF isZH THEN "[ZH] Hint: Method 1 step 7(a), add H2O to balance O atoms."
                ELSE "Hint: According to Method 1 Step 7(a), add H2O to balance O atoms."
            ELSE
                IF isZH THEN "[ZH] Hint: Method 1 step 7(b), check that the number of H atoms is balanced."
                ELSE "Hint: According to Method 1 Step 7(b), check to make sure that the number of H atoms is balanced."

\* C21: for topics REDOX_HALF and REDOX_FULL the atom-mismatch advice
\* follows the order non-O/H, then O, then H: it names the first element of
\* the unbalanced list that is neither O nor H if there is one; otherwise it
\* is the oxygen/water advice if O is unbalanced (also when H is unbalanced
\* too); otherwise it is the hydrogen advice.
C21_RedoxAdviceOrder ==
    (GameShown /\ feedback = "incorrect" /\ AtomTier(hintMessage)
        /\ selectedTopic \in {"REDOX_HALF", "REDOX_FULL"}) =>
        hintMessage[4] = RedoxAdvice(selectedTopic, language = "ZH",
                                     UnbalancedList(currentEquation, UserCoef(currentEquation)))

\* 2 H2 + 2 O2 -> H2O under the full-redox topic: H and O are both
\* unbalanced and the advice is the one of oxygen.
C21_Witness ==
    /\ GameShown
    /\ selectedTopic = "REDOX_FULL"
    /\ language = "EN"
    /\ feedback = "incorrect"
    /\ UnbalancedList(currentEquation, UserCoef(currentEquation)) = <<"H", "O">>
    /\ hintMessage[4] = "Hint: According to Method 1 Step 7(a), add H2O to balance O atoms."

\* The advice of the topics other than the two redox topics.
GeneralAdvice(isZH, list) ==
    LET other == FirstOther(list)
    IN  IF other # "" THEN
            IF isZH THEN "[ZH] Hint: step 3, balance metal/non-metal atoms (" \o other \o ") first, leaving H and O for last."
            ELSE "Hint: According to Step 3, balance metal/non-metal atoms (" \o other \o ") first, leaving H and O for last."
        ELSE
            IF isZH THEN "[ZH] Hint: step 3, other atoms are balanced. Finally, check and balance Hydrogen and Oxygen."
            ELSE "Hint: According to Step 3, other atoms are balanced. Finally, check and balance Hydrogen and Oxygen."

\* C22: for every topic other than REDOX_HALF and REDOX_FULL the
\* atom-mismatch advice names the first element of the unbalanced list that
\* is neither O nor H if there is one, and otherwise (only O and/or H
\* unbalanced) is the generic "balance H and O last" note.
C22_GeneralAdvice ==
    (GameShown /\ feedback = "incorrect" /\ AtomTier(hintMessage)
        /\ selectedTopic \notin {"REDOX_HALF", "REDOX_FULL"}) =>
        hintMessage[4] = GeneralAdvice(language = "ZH",
                                       UnbalancedList(currentEquation, UserCoef(currentEquation)))

\* O2 + Mg -> MgO outside the redox topics: oxygen is first in the list and
\* the advice names magnesium.
C22_Witness ==
    /\ GameShown
    /\ selectedTopic \notin {"REDOX_HALF", "REDOX_FULL"}
    /\ language = "EN"
    /\ feedback = "incorrect"
    /\ UnbalancedList(currentEquation, UserCoef(currentEquation)) = <<"O", "Mg">>
    /\ hintMessage[4] = "Hint: According to Step 3, balance metal/non-metal atoms (Mg) first, leaving H and O for last."

\* The unbalanced elements with their totals, in first-seen order.
ExpectedDetails(eq, c) ==
    LET list == UnbalancedList(eq, c)
    IN  [i \in 1..Len(list) |->
            [element |-> list[i],
             left    |-> Total(eq, c, "r", list[i]),
             right   |-> Total(eq, c, "p", list[i])]]

\* The text of the list: "El (L:l, R:r)" joined by ", ".
RECURSIVE ListText(_)
ListText(details) ==
    IF details = <<>> THEN ""
    ELSE LET d    == Head(details)
             item == d.element \o " (L:" \o NumeralText(d.left)
                        \o ", R:" \o NumeralText(d.right) \o ")"
         IN  IF Len(details) = 1 THEN item
             ELSE item \o ", " \o ListText(Tail(details))

IsHydrogenOxygenWater(eq) ==
    /\ [i \in 1..Len(eq.reactants) |-> eq.reactants[i].formula] = <<H2, O2>>
    /\ [i \in 1..Len(eq.products) |-> eq.products[i].formula] = <<H2O>>

\* C23: the unbalanced list of a check contains exactly the non-electron
\* elements whose coefficient-weighted totals differ between the two sides,
\* each with its left and right total (0 for a side where the element is
\* absent), ordered with left-side elements first in first-seen order and
\* then right-side-only elements, and the atom-mismatch hint lists all of
\* them in that order; for H2 + O2 -> H2O with coefficients 1,1,1 the list
\* is exactly [O: left 2, right 1].
C23_UnbalancedList ==
    (GameShown /\ ~CheckThrows(currentEquation)) =>
        LET c       == UserCoef(currentEquation)
            details == Balance(currentEquation, userCoefficients).unbalanced
        IN  /\ details = ExpectedDetails(currentEquation, c)
            /\ \A i \in 1..Len(details) : details[i].element # "e"
            /\ (feedback = "incorrect" /\ AtomTier(hintMessage)) =>
                   hintMessage[2] = ListText(ExpectedDetails(currentEquation, c))
            /\ (IsHydrogenOxygenWater(currentEquation) /\ \A id \in DOMAIN c : c[id] = 1) =>
                   details = <<[element |-> "O", left |-> 2, right |-> 1]>>

\* O2 -> MgO checked with the coefficients left empty: oxygen of the left
\* side comes before magnesium, which the left side does not have.
C23_Witness ==
    /\ GameShown
    /\ currentEquation = RightOnly
    /\ feedback = "incorrect"
    /\ hintMessage[2] = "O (L:2, R:1), Mg (L:0, R:1)"

\* H2 + O2 -> H2O checked with 1, 1, 1.
C23_WitnessWater ==
    /\ GameShown
    /\ IsHydrogenOxygenWater(currentEquation)
    /\ \A id \in IdsOf(currentEquation) : UserCoef(currentEquation)[id] = 1
    /\ feedback = "incorrect"
    /\ hintMessage[2] = "O (L:2, R:1)"

----------------------------------------------------------------------------
(* Groups that are never closed *)

\* Element symbols with optional counts, "(" and ")" with optional
\* multipliers, nested or not.
TokensOnly(s) ==
    /\ \A i \in 1..Len(s) : s[i] \in GrammarChars
    /\ \A i \in 1..Len(s) :
          s[i] \in Lower => i > 1 /\ s[i - 1] \in Upper \cup Lower
    /\ \A i \in 1..Len(s) :
          s[i] \in Digit => i > 1 /\ s[i - 1] \in Upper \cup Lower \cup Digit \cup {")"}

\* The "(" at p has no ")" that closes it.
Unclosed(s, p) ==
    /\ s[p] = "("
    /\ \A q \in (p + 1)..Len(s) : Depth(s, q) >= Depth(s, p)

HasUnclosed(s) == \E p \in 1..Len(s) : Unclosed(s, p)

FirstUnclosed(s) ==
    CHOOSE p \in 1..Len(s) : Unclosed(s, p) /\ \A q \in 1..(p - 1) : ~Unclosed(s, q)

\* What stands before the first "(" that is never closed.
BeforeUnclosed(s) == SubSeq(s, 1, FirstUnclosed(s) - 1)

\* The result is what the part before the first unclosed "(" counts.
CountsOnlyBase(s, out) ==
    LET before == BeforeUnclosed(s)
    IN  /\ ~out.threw /\ ~out.undef
        /\ Keys(out.value) = {NameAt(before, i) : i \in Occurrences(before)}
        /\ Len(out.value) = Cardinality(Keys(out.value))
        /\ \A e \in Entries(out.value) : e.cnt = Expected(before, e.el)

\* C24: when a formula has a "(" that is never closed, parseFormula does not
\* crash and returns only the atoms counted in the base frame: every atom
\* scanned after the unclosed "(" is absent from the result, while atoms
\* before it and atoms of groups that were closed are kept ("Ca(OH" gives
\* {Ca:1}).
C24_UnclosedGroupDropped ==
    (parseOut.called /\ TokensOnly(formula) /\ HasUnclosed(formula)) =>
        /\ CountsOnlyBase(formula, parseOut)
        /\ formula = UnclosedCa =>
              Entries(parseOut.value) = {[el |-> "Ca", cnt |-> 1]}

\* The same for the formulas in which every ")" closes a "(".
C24_DroppedWhenNoStrayCloser ==
    (parseOut.called /\ TokensOnly(formula) /\ HasUnclosed(formula)
        /\ \A i \in 1..Len(formula) : Depth(formula, i) >= 0) =>
        /\ CountsOnlyBase(formula, parseOut)
        /\ formula = UnclosedCa =>
              Entries(parseOut.value) = {[el |-> "Ca", cnt |-> 1]}

\* A closed group before the unclosed one is kept, an atom after it is not.
C24_WitnessKept ==
    /\ parseOut.called
    /\ formula = <<"(", "H", ")", "(", "C">>
    /\ Entries(parseOut.value) = {[el |-> "H", cnt |-> 1]}

\* C25: whenever a check finds at least one unbalanced element, the
\* topic-specific branch always produces non-empty advice for every topic,
\* so the odd/even (parity) fallback is never executed and the
\* atom-mismatch hint never ends with empty advice.
C25_GuideAdviceNeverEmpty ==
    (GameShown /\ ~CheckThrows(currentEquation)) =>
        LET details == Balance(currentEquation, userCoefficients).unbalanced
            isZH    == language = "ZH"
        IN  /\ details # <<>> =>
                  /\ GuideAdvice(isZH, selectedTopic, details) # ""
                  /\ Advice(isZH, selectedTopic, details)
                         = GuideAdvice(isZH, selectedTopic, details)
            /\ (feedback = "incorrect" /\ AtomTier(hintMessage)) =>
                  /\ hintMessage[4] # ""
                  /\ hintMessage[4] # OddEvenAdvice(isZH, details)

\* An atom-mismatch hint whose list has an odd total against an even one:
\* the fallback would have a tip, the advice shown is the one of the guide.
C25_Witness ==
    /\ GameShown
    /\ feedback = "incorrect"
    /\ AtomTier(hintMessage)
    /\ ~CheckThrows(currentEquation)
    /\ LET details == Balance(currentEquation, userCoefficients).unbalanced
       IN  /\ FindOddEven(details) # <<>>
           /\ OddEvenAdvice(language = "ZH", details) # ""
           /\ hintMessage[4] = GuideAdvice(language = "ZH", selectedTopic, details)

----------------------------------------------------------------------------
(* The batch and the current question *)

\* C26: after every completed load while a topic is selected, a current
\* question exists: equations is non-empty and 0 <= currentIndex <
\* equations.length, and this stays true under Next, which either
\* increments currentIndex while it is below the last index or starts a new
\* load that restarts at index 0.
C26_CurrentQuestionExists ==
    (selectedTopic # NoTopic /\ ~loading) =>
        /\ equations # <<>>
        /\ 0 <= currentIndex
        /\ currentIndex < Len(equations)

\* The index is within a batch that has a question, and Next keeps it so.
C26_IndexWithinBatch ==
    /\ (selectedTopic # NoTopic /\ ~loading /\ equations # <<>>) =>
           (0 <= currentIndex /\ currentIndex < Len(equations))
    /\ loading => currentIndex = 0

\* What a step may do to the score.
ScoreStep ==
    /\ (feedback # "correct" /\ feedback' = "correct") => score' = score + 10
    /\ score' # score =>
          \/ /\ score' = score + 10
             /\ feedback # "correct" /\ feedback' = "correct"
             /\ currentIndex' = currentIndex
             /\ ~loading /\ ~loading'
          \/ /\ score' = 0
             /\ ~loading /\ loading'
    /\ (~loading /\ loading') => (score' = 0 /\ currentIndex' = 0)
    /\ (feedback = "correct" /\ feedback' # "correct") =>
          \/ currentIndex' = currentIndex + 1
          \/ loading /\ ~loading'

\* C27: score changes only by +10 on a check whose outcome is CORRECT and
\* by reset to 0 when a batch load starts; each question can add to it at
\* most once (a question that is CORRECT stays so until the next question
\* or the next batch), so in every reachable state score is 10 times the
\* number of questions of the current batch answered CORRECT and is at most
\* 10 x (currentIndex + 1).
C27_ScoreCountsCorrect ==
    /\ [](/\ 0 <= score
          /\ score <= 10 * (currentIndex + 1)
          /\ score % 10 = 0
          /\ (feedback # "correct" => score <= 10 * currentIndex))
    /\ [][ScoreStep]_vars

\* The third question answered CORRECT after one CORRECT and one given up.
C27_Witness ==
    /\ GameShown
    /\ currentIndex = 2
    /\ feedback = "correct"
    /\ score = 20

\* C28: a question can never trap the user: from every non-loading state
\* that shows a question, whatever coefficients were entered and even when
\* the equation's reference coefficients cannot be reached or do not
\* balance, Next is reachable: it can be taken directly when the question
\* is CORRECT or REVEALED, and when it is UNANSWERED or INCORRECT the
\* answer can be revealed, which leaves the same question REVEALED.
C28_NextIsReachable ==
    /\ [](GameShown =>
            IF Terminal THEN ENABLED handleNext ELSE ENABLED RevealAnswer)
    /\ [][RevealAnswer =>
            /\ showAnswer' /\ ~loading'
            /\ selectedTopic' = selectedTopic
            /\ equations' = equations
            /\ currentIndex' = currentIndex]_vars

\* H)2 -> H2, whose check raises an error, after the answer was revealed.
C28_Witness ==
    /\ GameShown
    /\ currentEquation = Malformed
    /\ feedback = "none"
    /\ showAnswer
    /\ ENABLED handleNext

\* C29: selecting a topic discards the earlier history: the generation
\* request made for the newly selected topic carries an empty exclusion
\* list, and when that load completes history holds only the signatures of
\* the equations it returned; a load started by Next on the last question
\* instead passes the current history and appends to it.
C29_TopicSelectionDropsHistory ==
    [][/\ (selectedTopic = NoTopic /\ selectedTopic' # NoTopic) =>
             /\ loading'
             /\ Len(pending') = 1
             /\ pending'[1].topic = selectedTopic'
             /\ pending'[1].history = <<>>
             /\ history' = <<>>
       /\ (selectedTopic # NoTopic /\ ~loading /\ loading') =>
             /\ currentIndex = Len(equations) - 1
             /\ Len(pending') = 1
             /\ pending'[1].history = history
             /\ history' = history
       /\ (loading /\ ~loading' /\ Len(pending) = 1) =>
             LET new == [k \in 1..Len(equations') |-> SortedSignatureOf[equations'[k]]]
             IN  IF pending[1].history = <<>>
                 THEN history' = new
                 ELSE /\ history = pending[1].history
                      /\ \E k \in 1..(Len(history) + 1) :
                            history' = SubSeq(history, k, Len(history)) \o new]_vars

\* A topic selected again after a batch was served: the request that is
\* under way excludes nothing and history is empty.
C29_Witness ==
    /\ selectedTopic # NoTopic
    /\ loading
    /\ equations # <<>>
    /\ isOfflineMode
    /\ Len(pending) = 1
    /\ pending[1].history = <<>>
    /\ history = <<>>

====
